---- MODULE Spec2Model ----
(***************************************************************************)
(* Compute-pass recording and replay core of wgpu-core                     *)
(* (wgpu-core/src/command/compute.rs).                                     *)
(*                                                                         *)
(* A ComputePass records commands into a BasePass (the record) while the   *)
(* parent command encoder is locked; compute_pass_end takes the record and *)
(* replays it against a transient State, emitting HAL calls into a body    *)
(* segment and a barrier prelude into a pre-body segment.                  *)
(***************************************************************************)
EXTENDS Integers, Sequences, FiniteSets, TLC

VARIABLES
    passes,     \* pass handle (1, 2, ...) -> ComputePass, in creation order
    cmd_buf,    \* the parent CommandBuffer: status, encoder segments, trackers
    device,     \* the encoder's device: instance flags
    last,       \* the last API call and what it returned
    ncalls,     \* number of calls so far that created a pass or changed a record
    passed,     \* pass handle -> per recorded command, the side data its call passed
    finalized,  \* pass handle -> number of times finalization ran for it
    end_called, \* pass handle -> compute_pass_end has returned for it
    fin         \* the State left by the last finalization, and its base

vars == <<passes, cmd_buf, device, last, ncalls, passed, finalized, end_called, fin>>

----------------------------------------------------------------------------
(* Bounds of the model *)

\* number of calls that create a pass or change a record, in the lifecycle
\* specification
MaxCalls == 2
\* number of slots the redundancy filter and the binder keep
MaxBindGroupSlots == 3

----------------------------------------------------------------------------
(* Small helpers *)

Min(a, b) == IF a < b THEN a ELSE b
Max(a, b) == IF a > b THEN a ELSE b

RECURSIVE SumSeq(_)
SumSeq(s) == IF s = <<>> THEN 0 ELSE Head(s) + SumSeq(Tail(s))

RECURSIVE Pow2(_)
Pow2(n) == IF n = 0 THEN 1 ELSE 2 * Pow2(n - 1)

\* Option<T>: None is the empty sequence, Some(x) the one-element sequence
NoneOpt == <<>>
Some(x) == <<x>>
IsSome(o) == o /= <<>>
Unwrap(o) == o[1]

----------------------------------------------------------------------------
(* The world outside the pass: the hub's registries and the device.        *)
(* Ids that are not in a registry's domain are invalid ids.                *)

EncoderDevice == "dev"

\* hub.bind_groups: device, bind group layout, number of dynamic bindings,
\* resources used (resource, usage), textures left discarded by a prior pass
BindGroups ==
    [G1 |-> [device |-> "dev", layout |-> "LA", dynamic |-> 0, late_ok |-> TRUE,
             used |-> {<<"B1", "STORAGE_READ_WRITE">>}, discarded |-> {}],
     G2 |-> [device |-> "dev", layout |-> "LB", dynamic |-> 1, late_ok |-> TRUE,
             used |-> {<<"B3", "UNIFORM">>}, discarded |-> {"tex1"}],
     G3 |-> [device |-> "dev", layout |-> "LB", dynamic |-> 0, late_ok |-> TRUE,
             used |-> {<<"B1", "STORAGE_READ_ONLY">>}, discarded |-> {}],
     G4 |-> [device |-> "dev", layout |-> "LA", dynamic |-> 0, late_ok |-> FALSE,
             used |-> {<<"B3", "UNIFORM">>}, discarded |-> {}],
     GX |-> [device |-> "other", layout |-> "LA", dynamic |-> 0, late_ok |-> TRUE,
             used |-> {}, discarded |-> {}]]

\* pipeline layouts: expected bind group layout per slot, push constant range end
PipelineLayouts ==
    [PL0  |-> [bind_group_layouts |-> <<>>, push_constant_end |-> 8],
     PLA  |-> [bind_group_layouts |-> <<"LA">>, push_constant_end |-> 0],
     PLAB |-> [bind_group_layouts |-> <<"LA", "LB">>, push_constant_end |-> 0]]

\* hub.compute_pipelines
ComputePipelines ==
    [P0 |-> [device |-> "dev", layout |-> "PL0"],
     P1 |-> [device |-> "dev", layout |-> "PLA"],
     P2 |-> [device |-> "dev", layout |-> "PLAB"],
     PX |-> [device |-> "other", layout |-> "PLA"]]

\* hub.buffers
Buffers ==
    [B1 |-> [device |-> "dev", size |-> 16, indirect |-> TRUE],
     B2 |-> [device |-> "dev", size |-> 8, indirect |-> TRUE],
     B3 |-> [device |-> "dev", size |-> 16, indirect |-> FALSE],
     BX |-> [device |-> "other", size |-> 16, indirect |-> TRUE]]

\* hub.query_sets
QuerySets ==
    [Q1 |-> [device |-> "dev", type |-> "Timestamp", count |-> 2],
     Q2 |-> [device |-> "dev", type |-> "PipelineStatistics", count |-> 2],
     QX |-> [device |-> "other", type |-> "Timestamp", count |-> 2]]

\* hub.command_buffers
CommandEncoders == {"E1"}

\* device.limits, device.features, device.downlevel
DeviceLimits ==
    [max_bind_groups |-> 2, max_compute_workgroups_per_dimension |-> 2]
DeviceFeatures ==
    [TIMESTAMP_QUERY_INSIDE_PASSES |-> TRUE, PIPELINE_STATISTICS_QUERY |-> TRUE,
     INDIRECT_EXECUTION |-> TRUE]

\* the buffers and textures that usage scopes and trackers follow
Resources == DOMAIN Buffers

\* wgt::PUSH_CONSTANT_ALIGNMENT
PUSH_CONSTANT_ALIGNMENT == 4
\* mem::size_of::<wgt::DispatchIndirectArgs>()
DispatchIndirectArgsSize == 12
\* dynamic offsets of a bind group must be aligned to this
DynamicOffsetAlignment == 4

\* the width of a u64, scaled down: offsets are U64Bits-bit unsigned integers
U64Bits == 6
U64_MAX == Pow2(U64Bits) - 1

\* u64 addition as the build without overflow checks computes it, and
\* whether it overflows
u64_add(a, b) == (a + b) % Pow2(U64Bits)
u64_add_overflows(a, b) == a + b > U64_MAX

\* the width of a u32, scaled down: query indices are U32Bits-bit unsigned
\* integers
U32Bits == 3
U32_MAX == Pow2(U32Bits) - 1

\* u32 addition as the machine does it
u32_add(a, b) == (a + b) % Pow2(U32Bits)
u32_add_overflows(a, b) == a + b > U32_MAX

Slots == 0 .. (MaxBindGroupSlots - 1)

----------------------------------------------------------------------------
(* Results: Ok, or an error kind wrapped in a PassErrorScope                *)

Ok == [scope |-> "", inner |-> "Ok", info |-> <<>>]
Err(scope, inner) == [scope |-> scope, inner |-> inner, info |-> <<>>]
ErrInfo(scope, inner, info) == [scope |-> scope, inner |-> inner, info |-> info]

\* map_pass_err: wraps an inner error in the scope of the caller
map_pass_err(res, scope) ==
    IF res.inner = "Ok" THEN res ELSE [res EXCEPT !.scope = scope]

----------------------------------------------------------------------------
(* Command Record: BasePass and ArcComputeCommand                           *)

\* BasePass::new(label)
BasePass_new ==
    [commands |-> <<>>, dynamic_offsets |-> <<>>,
     string_data |-> <<>>, push_constant_data |-> <<>>]

SetBindGroupCmd(index, n, g) ==
    [kind |-> "SetBindGroup", index |-> index, num_dynamic_offsets |-> n, bind_group |-> g]
SetPipelineCmd(p) == [kind |-> "SetPipeline", pipeline |-> p]
SetPushConstantCmd(offset, size_bytes, values_offset) ==
    [kind |-> "SetPushConstant", offset |-> offset, size_bytes |-> size_bytes,
     values_offset |-> values_offset]
DispatchCmd(groups) == [kind |-> "Dispatch", groups |-> groups]
DispatchIndirectCmd(buffer, offset) ==
    [kind |-> "DispatchIndirect", buffer |-> buffer, offset |-> offset]
PushDebugGroupCmd(len) == [kind |-> "PushDebugGroup", len |-> len]
PopDebugGroupCmd == [kind |-> "PopDebugGroup"]
InsertDebugMarkerCmd(len) == [kind |-> "InsertDebugMarker", len |-> len]
WriteTimestampCmd(qs, i) ==
    [kind |-> "WriteTimestamp", query_set |-> qs, query_index |-> i]
BeginPipelineStatisticsQueryCmd(qs, i) ==
    [kind |-> "BeginPipelineStatisticsQuery", query_set |-> qs, query_index |-> i]
EndPipelineStatisticsQueryCmd == [kind |-> "EndPipelineStatisticsQuery"]

\* base.commands.push(cmd)
push_command(base, cmd) == [base EXCEPT !.commands = Append(@, cmd)]

----------------------------------------------------------------------------
(* Redundancy filter: StateChange and BindGroupStateChange                  *)

\* StateChange::new()
StateChange_new == NoneOpt

\* StateChange::set_and_check_redundant: remembers the new id and tells
\* whether it is the one remembered before
StateChange_set_and_check_redundant(current, new_id) ==
    [redundant |-> (current = Some(new_id)), current |-> Some(new_id)]

\* BindGroupStateChange::new()
BindGroupStateChange_new == [i \in Slots |-> NoneOpt]

\* BindGroupStateChange::set_and_check_redundant: redundant iff slot `index`
\* already holds this group id with equal dynamic offsets; otherwise the
\* filter remembers the binding and writes the offsets into the side buffer
BindGroupStateChange_set_and_check_redundant(current, bind_group_id, index, dynamic_offsets, offsets) ==
    LET entry == [id |-> bind_group_id, offsets |-> offsets]
        same  == index \in Slots /\ current[index] = Some(entry)
    IN  IF same
        THEN [redundant |-> TRUE, current |-> current,
              dynamic_offsets |-> dynamic_offsets]
        ELSE [redundant |-> FALSE,
              current |-> IF index \in Slots
                          THEN [current EXCEPT ![index] = Some(entry)]
                          ELSE current,
              dynamic_offsets |-> dynamic_offsets \o offsets]

----------------------------------------------------------------------------
(* ComputePass                                                             *)

\* ComputePass::new(parent, desc)
ComputePass_new(parent, timestamp_writes) ==
    [base |-> Some(BasePass_new),
     parent |-> parent,
     timestamp_writes |-> timestamp_writes,
     current_bind_groups |-> BindGroupStateChange_new,
     current_pipeline |-> StateChange_new]

\* What a recording call returns: the pass as it leaves it, and the result
Ret(pass, res) == [pass |-> pass, res |-> res]

\* ComputePass::base_mut(scope): the record, or PassEnded in the given scope
base_mut(pass, scope) ==
    IF IsSome(pass.base) THEN Ok ELSE Err(scope, "PassEnded")

with_base(pass, base) == [pass EXCEPT !.base = Some(base)]

----------------------------------------------------------------------------
(* Recording a compute pass                                                *)

\* variant: a set_bind_group without the redundancy filter
compute_pass_set_bind_group_unfiltered(pass, index, bind_group_id, offsets) ==
    LET scope == "SetBindGroup"
        appended(base1) ==
            IF bind_group_id \notin DOMAIN BindGroups
            THEN Ret(with_base(pass, base1), Err(scope, "InvalidBindGroupId"))
            ELSE Ret(with_base(pass,
                        push_command(base1, SetBindGroupCmd(index, Len(offsets), bind_group_id))),
                     Ok)
    IN  IF ~IsSome(pass.base) THEN Ret(pass, Err(scope, "PassEnded"))
        ELSE appended([Unwrap(pass.base) EXCEPT !.dynamic_offsets = @ \o offsets])

compute_pass_set_bind_group(pass, index, bind_group_id, offsets) ==
    LET scope == "SetBindGroup" IN
    IF ~IsSome(pass.base) THEN Ret(pass, Err(scope, "PassEnded"))
    ELSE
    LET base == Unwrap(pass.base)
        chk  == BindGroupStateChange_set_and_check_redundant(
                    pass.current_bind_groups, bind_group_id, index,
                    base.dynamic_offsets, offsets)
        base1 == [base EXCEPT !.dynamic_offsets = chk.dynamic_offsets]
        pass1 == [with_base(pass, base1) EXCEPT !.current_bind_groups = chk.current]
    IN  IF chk.redundant THEN Ret(pass1, Ok)
        ELSE IF bind_group_id \notin DOMAIN BindGroups
        THEN Ret(pass1, Err(scope, "InvalidBindGroupId"))
        ELSE Ret(with_base(pass1,
                    push_command(base1, SetBindGroupCmd(index, Len(offsets), bind_group_id))),
                 Ok)

\* A faulty set_pipeline, for sensitivity analysis: it returns early on a
\* redundant pipeline id before it looks at the record
compute_pass_set_pipeline_filter_first(pass, pipeline_id) ==
    LET scope == "SetPipelineCompute"
        filtered(pass1, redundant) ==
            IF redundant THEN Ret(pass1, Ok)
            ELSE IF ~IsSome(pass1.base) THEN Ret(pass1, Err(scope, "PassEnded"))
            ELSE IF pipeline_id \notin DOMAIN ComputePipelines
            THEN Ret(pass1, Err(scope, "InvalidPipeline"))
            ELSE Ret([pass1 EXCEPT !.base =
                         Some([Unwrap(pass1.base) EXCEPT
                                  !.commands = Append(@, [kind |-> "SetPipeline",
                                                           pipeline |-> pipeline_id])])],
                     Ok)
    IN  filtered([pass EXCEPT !.current_pipeline = <<pipeline_id>>],
                 pass.current_pipeline = <<pipeline_id>>)

\* reference: a set_pipeline that records every call, without the filter
compute_pass_set_pipeline_unfiltered(pass, pipeline_id) ==
    LET scope == "SetPipelineCompute"
        res   == base_mut(pass, scope)
    IN  IF res /= Ok THEN Ret(pass, res)
        ELSE IF pipeline_id \notin DOMAIN ComputePipelines
        THEN Ret(pass, Err(scope, "InvalidPipeline"))
        ELSE Ret(with_base(pass, push_command(Unwrap(pass.base), SetPipelineCmd(pipeline_id))),
                 Ok)

compute_pass_set_pipeline(pass, pipeline_id) ==
    LET chk   == StateChange_set_and_check_redundant(pass.current_pipeline, pipeline_id)
        scope == "SetPipelineCompute"
        pass1 == [pass EXCEPT !.current_pipeline = chk.current]
        res   == base_mut(pass1, scope)
    IN  IF res /= Ok THEN Ret(pass1, res)
        ELSE IF chk.redundant THEN Ret(pass1, Ok)
        ELSE IF pipeline_id \notin DOMAIN ComputePipelines
        THEN Ret(pass1, Err(scope, "InvalidPipeline"))
        ELSE Ret(with_base(pass1, push_command(Unwrap(pass1.base), SetPipelineCmd(pipeline_id))),
                 Ok)

\* u32::from_ne_bytes on a little-endian target
from_ne_bytes(b) == b[1] + 256 * b[2] + 65536 * b[3] + 16777216 * b[4]

\* data.chunks_exact(4).map(from_ne_bytes)
RECURSIVE chunks_to_words(_)
chunks_to_words(data) ==
    IF Len(data) < PUSH_CONSTANT_ALIGNMENT THEN <<>>
    ELSE <<from_ne_bytes(SubSeq(data, 1, 4))>>
         \o chunks_to_words(SubSeq(data, 5, Len(data)))

\* `data.len() as u32`: the length of the slice, truncated to a u32
len_as_u32(data) == Len(data) % Pow2(U32Bits)

\* the length of the word buffer must fit a u32 (try_into), the size stored
\* is the truncated length, the words appended are those of the whole slice
compute_pass_set_push_constant(pass, offset, data) ==
    LET scope == "SetPushConstant"
        res   == base_mut(pass, scope)
    IN  IF res /= Ok THEN Ret(pass, res)
        ELSE IF offset % PUSH_CONSTANT_ALIGNMENT /= 0
        THEN Ret(pass, Err(scope, "PushConstantOffsetAlignment"))
        ELSE IF len_as_u32(data) % PUSH_CONSTANT_ALIGNMENT /= 0
        THEN Ret(pass, Err(scope, "PushConstantSizeAlignment"))
        ELSE IF Len(Unwrap(pass.base).push_constant_data) > U32_MAX
        THEN Ret(pass, Err(scope, "PushConstantOutOfMemory"))
        ELSE
        LET base == Unwrap(pass.base)
            value_offset == Len(base.push_constant_data)
            base1 == [base EXCEPT !.push_constant_data = @ \o chunks_to_words(data)]
        IN  Ret(with_base(pass,
                    push_command(base1,
                                 SetPushConstantCmd(offset, len_as_u32(data), value_offset))),
                Ok)

compute_pass_dispatch_workgroups(pass, groups_x, groups_y, groups_z) ==
    LET scope == "Dispatch"
        res   == base_mut(pass, scope)
    IN  IF res /= Ok THEN Ret(pass, res)
        ELSE Ret(with_base(pass, push_command(Unwrap(pass.base),
                    DispatchCmd(<<groups_x, groups_y, groups_z>>))), Ok)

compute_pass_dispatch_workgroups_indirect(pass, buffer_id, offset) ==
    LET scope == "DispatchIndirect"
        res   == base_mut(pass, scope)
    IN  IF res /= Ok THEN Ret(pass, res)
        ELSE IF buffer_id \notin DOMAIN Buffers
        THEN Ret(pass, Err(scope, "InvalidBufferId"))
        ELSE Ret(with_base(pass, push_command(Unwrap(pass.base),
                    DispatchIndirectCmd(buffer_id, offset))), Ok)

compute_pass_push_debug_group(pass, label) ==
    LET res == base_mut(pass, "PushDebugGroup")
    IN  IF res /= Ok THEN Ret(pass, res)
        ELSE
        LET base  == Unwrap(pass.base)
            base1 == [base EXCEPT !.string_data = @ \o label]
        IN  Ret(with_base(pass, push_command(base1, PushDebugGroupCmd(Len(label)))), Ok)

compute_pass_pop_debug_group(pass) ==
    LET res == base_mut(pass, "PopDebugGroup")
    IN  IF res /= Ok THEN Ret(pass, res)
        ELSE Ret(with_base(pass, push_command(Unwrap(pass.base), PopDebugGroupCmd)), Ok)

compute_pass_insert_debug_marker(pass, label) ==
    LET res == base_mut(pass, "InsertDebugMarker")
    IN  IF res /= Ok THEN Ret(pass, res)
        ELSE
        LET base  == Unwrap(pass.base)
            base1 == [base EXCEPT !.string_data = @ \o label]
        IN  Ret(with_base(pass, push_command(base1, InsertDebugMarkerCmd(Len(label)))), Ok)

compute_pass_write_timestamp(pass, query_set_id, query_index) ==
    LET scope == "WriteTimestamp"
        res   == base_mut(pass, scope)
    IN  IF res /= Ok THEN Ret(pass, res)
        ELSE IF query_set_id \notin DOMAIN QuerySets
        THEN Ret(pass, Err(scope, "InvalidQuerySet"))
        ELSE Ret(with_base(pass, push_command(Unwrap(pass.base),
                    WriteTimestampCmd(query_set_id, query_index))), Ok)

compute_pass_begin_pipeline_statistics_query(pass, query_set_id, query_index) ==
    LET scope == "BeginPipelineStatisticsQuery"
        res   == base_mut(pass, scope)
    IN  IF res /= Ok THEN Ret(pass, res)
        ELSE IF query_set_id \notin DOMAIN QuerySets
        THEN Ret(pass, Err(scope, "InvalidQuerySet"))
        ELSE Ret(with_base(pass, push_command(Unwrap(pass.base),
                    BeginPipelineStatisticsQueryCmd(query_set_id, query_index))), Ok)

compute_pass_end_pipeline_statistics_query(pass) ==
    LET res == base_mut(pass, "EndPipelineStatisticsQuery")
    IN  IF res /= Ok THEN Ret(pass, res)
        ELSE Ret(with_base(pass, push_command(Unwrap(pass.base),
                    EndPipelineStatisticsQueryCmd)), Ok)

----------------------------------------------------------------------------
(* HAL calls and encoder segments                                          *)

Hal(call, id, nums) == [call |-> call, id |-> id, nums |-> nums, barriers |-> {}]
HalBarriers(call, barriers) == [call |-> call, id |-> "", nums |-> <<>>, barriers |-> barriers]

\* an encoder segment: the HAL calls of one raw command buffer; `part` and
\* `pass` say what opened it ("prior", "body" or "pre_body" of which pass)
Segment(part, p, calls) == [part |-> part, pass |-> p, calls |-> calls]
NoSegment == Segment("", 0, <<>>)

\* CommandEncoder::close: ends the open segment and pushes it onto the list
encoder_close(enc, hal_ok) ==
    IF ~enc.is_open THEN [enc |-> enc, res |-> Ok]
    ELSE IF ~hal_ok
    THEN [enc |-> [enc EXCEPT !.is_open = FALSE, !.raw = NoSegment],
          res |-> Err("", "Device")]
    ELSE [enc |-> [enc EXCEPT !.is_open = FALSE, !.raw = NoSegment,
                              !.list = Append(@, enc.raw)],
          res |-> Ok]

\* CommandEncoder::open: begins a fresh segment unless one is open
encoder_open(enc, hal_ok, part, p) ==
    IF enc.is_open THEN [enc |-> enc, res |-> Ok]
    ELSE IF ~hal_ok THEN [enc |-> enc, res |-> Err("", "Device")]
    ELSE [enc |-> [enc EXCEPT !.is_open = TRUE, !.raw = Segment(part, p, <<>>)],
          res |-> Ok]

\* list.insert(list.len() - 1, new)
InsertBeforeLast(list, x) ==
    IF list = <<>> THEN <<x>>
    ELSE SubSeq(list, 1, Len(list) - 1) \o <<x, list[Len(list)]>>

\* CommandEncoder::close_and_swap: ends the open segment and splices it
\* before the last closed one
encoder_close_and_swap(enc, hal_ok) ==
    IF ~enc.is_open THEN [enc |-> enc, res |-> Ok]
    ELSE IF ~hal_ok
    THEN [enc |-> [enc EXCEPT !.is_open = FALSE, !.raw = NoSegment],
          res |-> Err("", "Device")]
    ELSE [enc |-> [enc EXCEPT !.is_open = FALSE, !.raw = NoSegment,
                              !.list = InsertBeforeLast(@, enc.raw)],
          res |-> Ok]

\* CommandBuffer::lock_encoder on the encoder's status
lock_encoder(status) ==
    IF status = "Recording" THEN [status |-> "Locked", res |-> Ok]
    ELSE IF status = "Locked" THEN [status |-> status, res |-> Err("", "Locked")]
    ELSE IF status = "Finished" THEN [status |-> status, res |-> Err("", "NotRecording")]
    ELSE [status |-> status, res |-> Err("", "Invalid")]

\* CommandBuffer::unlock_encoder on the encoder's status
unlock_encoder(status) ==
    IF status = "Locked" THEN [status |-> "Recording", res |-> Ok]
    ELSE [status |-> status, res |-> Err("", "Encoder")]

----------------------------------------------------------------------------
(* Usage scope and trackers                                                *)

EmptyUsages == [r \in Resources |-> {}]

ExclusiveUsages == {"STORAGE_READ_WRITE"}

\* two usages of one resource in one scope are allowed together iff no
\* exclusive usage is involved
usages_compatible(us) == Cardinality(us) <= 1 \/ us \cap ExclusiveUsages = {}

\* UsageScope::merge_single / merge_bind_group on one (resource, usage)
scope_merge_single(scope, r, u) ==
    LET merged == scope[r] \cup {u}
    IN  IF usages_compatible(merged)
        THEN [scope |-> [scope EXCEPT ![r] = merged], res |-> Ok]
        ELSE [scope |-> scope, res |-> Err("", "ResourceUsageCompatibility")]

RECURSIVE scope_merge_all(_, _)
scope_merge_all(scope, used) ==
    IF used = {} THEN [scope |-> scope, res |-> Ok]
    ELSE LET e == CHOOSE x \in used : TRUE
             m == scope_merge_single(scope, e[1], e[2])
         IN  IF m.res /= Ok THEN m ELSE scope_merge_all(m.scope, used \ {e})

\* Tracker::new()
Tracker_new == [start |-> EmptyUsages, end |-> EmptyUsages, temp |-> {}]

\* set_and_remove_from_usage_scope_sparse: moves the listed resources out of
\* the scope into the tracker, computing the transition of each
set_and_remove_from_usage_scope_sparse(tr, scope, rs) ==
    LET moved == {r \in rs : scope[r] /= {}}
    IN  [tracker |->
            [start |-> [r \in Resources |->
                          IF r \in moved /\ tr.end[r] = {} THEN scope[r] ELSE tr.start[r]],
             end   |-> [r \in Resources |-> IF r \in moved THEN scope[r] ELSE tr.end[r]],
             temp  |-> tr.temp \cup
                       {<<r, tr.end[r], scope[r]>> :
                            r \in {x \in moved : tr.end[x] /= {} /\ tr.end[x] /= scope[x]}}],
         scope |-> [r \in Resources |-> IF r \in moved THEN {} ELSE scope[r]]]

\* CommandBuffer::drain_barriers: the pending transitions become HAL barriers
drain_barriers(raw, tr) ==
    [raw |-> IF tr.temp = {} THEN raw
             ELSE Append(raw, HalBarriers("transition_buffers", tr.temp)),
     tracker |-> [tr EXCEPT !.temp = {}]]

----------------------------------------------------------------------------
(* Binder                                                                  *)

\* Binder::new()
Binder_new ==
    [pipeline_layout |-> NoneOpt,
     assigned |-> [i \in Slots |-> NoneOpt],
     expected |-> [i \in Slots |-> NoneOpt],
     offsets  |-> [i \in Slots |-> <<>>]]

\* slot i is satisfied: nothing expected there, or a group of the expected layout
binder_is_valid(b, i) ==
    \/ b.expected[i] = NoneOpt
    \/ /\ IsSome(b.assigned[i])
       /\ BindGroups[Unwrap(b.assigned[i])].layout = Unwrap(b.expected[i])

\* Binder::invalid_mask: bit i is set iff slot i is expected but not satisfied
invalid_mask(b) ==
    SumSeq([k \in 1 .. MaxBindGroupSlots |->
                IF binder_is_valid(b, k - 1) THEN 0 ELSE Pow2(k - 1)])

\* u32::trailing_zeros of a non-zero mask
RECURSIVE trailing_zeros(_)
trailing_zeros(m) == IF m % 2 = 1 THEN 0 ELSE 1 + trailing_zeros(m \div 2)

\* the slots from start up to the first slot that is not bound as expected
binder_make_range(b, start) ==
    LET bad == {i \in Slots : b.expected[i] = NoneOpt \/ ~binder_is_valid(b, i)}
        end == IF bad = {} THEN MaxBindGroupSlots
               ELSE CHOOSE i \in bad : \A j \in bad : i <= j
    IN  [k \in 1 .. (Max(end, start) - start) |->
            [group |-> b.assigned[start + k - 1],
             dynamic_offsets |-> b.offsets[start + k - 1]]]

\* Binder::assign_group
assign_group(b, index, bind_group, offsets) ==
    LET b1 == [b EXCEPT !.assigned[index] = Some(bind_group),
                        !.offsets[index] = offsets]
    IN  [binder |-> b1, entries |-> binder_make_range(b1, index)]

\* Binder::change_pipeline_layout
change_pipeline_layout(b, layout) ==
    LET bgls == PipelineLayouts[layout].bind_group_layouts
        new_expected == [i \in Slots |->
                            IF i < Len(bgls) THEN Some(bgls[i + 1]) ELSE NoneOpt]
        differ == {i \in Slots : b.expected[i] /= new_expected[i]}
        start_index == IF differ = {} THEN Len(bgls)
                       ELSE CHOOSE i \in differ : \A j \in differ : i <= j
        b1 == [b EXCEPT !.pipeline_layout = Some(layout), !.expected = new_expected]
        incompatible == {i \in Slots : i < Len(bgls) /\ ~binder_is_valid(b1, i)}
        first_bad == IF incompatible = {} THEN MaxBindGroupSlots
                     ELSE CHOOSE i \in incompatible : \A j \in incompatible : i <= j
        b2 == [b1 EXCEPT !.assigned = [i \in Slots |->
                                          IF i >= first_bad THEN NoneOpt ELSE b1.assigned[i]],
                         !.offsets = [i \in Slots |->
                                          IF i >= first_bad THEN <<>> ELSE b1.offsets[i]]]
    IN  [binder |-> b2, start_index |-> start_index,
         entries |-> binder_make_range(b2, start_index)]

\* Binder::list_active: the groups bound at slots the pipeline layout expects
list_active(b) ==
    {Unwrap(b.assigned[i]) : i \in {j \in Slots : IsSome(b.assigned[j]) /\ IsSome(b.expected[j])}}

\* Binder::check_late_buffer_bindings
check_late_buffer_bindings(b) ==
    IF \A g \in list_active(b) : BindGroups[g].late_ok THEN Ok
    ELSE Err("", "Dispatch(BindingSizeTooSmall)")

----------------------------------------------------------------------------
(* Replay state                                                            *)

\* the State built at the start of compute_pass_end_impl; `res` is the
\* outcome of the replay so far, `raw_encoder` the body's HAL calls, and
\* `overflow_checks` whether the build the replay runs in panics on integer
\* overflow (as debug builds do) or wraps (as release builds do)
State_new(tracker, discard_labels) ==
    [binder |-> Binder_new,
     pipeline |-> NoneOpt,
     scope |-> EmptyUsages,
     debug_scope_depth |-> 0,
     discard_hal_labels |-> discard_labels,
     overflow_checks |-> FALSE,
     raw_encoder |-> <<>>,
     tracker |-> tracker,
     buffer_memory_init_actions |-> {},
     temp_offsets |-> <<>>,
     dynamic_offset_count |-> 0,
     string_offset |-> 0,
     active_query |-> NoneOpt,
     intermediate_trackers |-> Tracker_new,
     pending_discard_init_fixups |-> {},
     replayed |-> 0,
     res |-> Ok]

fail(state, inner) == [state EXCEPT !.res = Err("", inner)]
fail_info(state, inner, info) == [state EXCEPT !.res = ErrInfo("", inner, info)]
\* variant: a HAL call that lands at the head of the command buffer
emit_first(state, call) == [state EXCEPT !.raw_encoder = <<call>> \o @]

emit(state, call) == [state EXCEPT !.raw_encoder = Append(@, call)]

\* variant: a same_device_as that accepts every device
same_device_any(dev) == TRUE

\* same_device_as(cmd_buf)
same_device(dev) == dev = EncoderDevice

\* State::is_ready
\* variant: an is_ready that does not ask for a pipeline
is_ready_without_pipeline(state) ==
    IF IsSome(state.pipeline)
    THEN LET bind_mask == invalid_mask(state.binder)
         IN  IF bind_mask /= 0
             THEN ErrInfo("", "Dispatch(IncompatibleBindGroup)", <<trailing_zeros(bind_mask)>>)
             ELSE check_late_buffer_bindings(state.binder)
    ELSE Ok

\* variant: an is_ready that does not look at the bind groups
is_ready_ignoring_bind_groups(state) ==
    IF IsSome(state.pipeline)
    THEN check_late_buffer_bindings(state.binder)
    ELSE Err("", "Dispatch(MissingPipeline)")

is_ready(state) ==
    IF IsSome(state.pipeline)
    THEN LET bind_mask == invalid_mask(state.binder)
         IN  IF bind_mask /= 0
             THEN ErrInfo("", "Dispatch(IncompatibleBindGroup)", <<trailing_zeros(bind_mask)>>)
             ELSE check_late_buffer_bindings(state.binder)
    ELSE Err("", "Dispatch(MissingPipeline)")

UsedOf(groups) == UNION {BindGroups[g].used : g \in groups}

\* the groups list_active returns, in slot order
active_in_order(b) ==
    LET at(k) == b.assigned[k - 1]
        live == SelectSeq([k \in 1 .. MaxBindGroupSlots |-> k],
                          LAMBDA k : IsSome(b.assigned[k - 1]) /\ IsSome(b.expected[k - 1]))
    IN  [j \in 1 .. Len(live) |-> Unwrap(at(live[j]))]

\* variant: a flush that merges and moves one bind group at a time, so that
\* a group has left the scope before the next one is merged
RECURSIVE flush_group_by_group(_, _, _)
flush_group_by_group(state, groups, k) ==
    LET moved(mv) ==
            flush_group_by_group([state EXCEPT !.scope = mv.scope,
                                               !.intermediate_trackers = mv.tracker],
                                 groups, k + 1)
        merged(m) ==
            IF m.res /= Ok
            THEN [state EXCEPT !.scope = m.scope, !.res = m.res]
            ELSE moved(set_and_remove_from_usage_scope_sparse(
                           state.intermediate_trackers, m.scope,
                           {e[1] : e \in BindGroups[groups[k]].used}))
    IN  IF k > Len(groups) THEN state
        ELSE merged(scope_merge_all(state.scope, BindGroups[groups[k]].used))

flush_states_group_by_group(state, indirect_buffer) ==
    LET drained(s1, mv, dr) ==
            [s1 EXCEPT !.scope = mv.scope,
                       !.intermediate_trackers = dr.tracker,
                       !.raw_encoder = dr.raw]
        indirect_moved(s1, mv) == drained(s1, mv, drain_barriers(s1.raw_encoder, mv.tracker))
        groups_moved(s1) ==
            IF s1.res /= Ok THEN s1
            ELSE indirect_moved(s1, set_and_remove_from_usage_scope_sparse(
                                        s1.intermediate_trackers, s1.scope, indirect_buffer))
    IN  groups_moved(flush_group_by_group(state, active_in_order(state.binder), 1))

\* variant: a flush that moves the usages to the intermediate trackers and
\* leaves them in the scope as well
flush_states_keeping_scope(state, indirect_buffer) ==
    LET used == UsedOf(list_active(state.binder))
        drained(kept, dr) ==
            [state EXCEPT !.scope = kept,
                          !.intermediate_trackers = dr.tracker,
                          !.raw_encoder = dr.raw]
        indirect_moved(kept, mv) ==
            drained(kept, drain_barriers(state.raw_encoder, mv.tracker))
        groups_moved(kept, mv) ==
            indirect_moved(kept, set_and_remove_from_usage_scope_sparse(
                                     mv.tracker, mv.scope, indirect_buffer))
        merged(m) ==
            IF m.res /= Ok
            THEN [state EXCEPT !.scope = m.scope, !.res = m.res]
            ELSE groups_moved(m.scope,
                              set_and_remove_from_usage_scope_sparse(
                                  state.intermediate_trackers, m.scope,
                                  {e[1] : e \in used}))
    IN  merged(scope_merge_all(state.scope, used))

\* State::flush_states(indirect_buffer)
flush_states(state, indirect_buffer) ==
    LET used == UsedOf(list_active(state.binder))
        drained(mv, dr) ==
            [state EXCEPT !.scope = mv.scope,
                          !.intermediate_trackers = dr.tracker,
                          !.raw_encoder = dr.raw]
        indirect_moved(mv) == drained(mv, drain_barriers(state.raw_encoder, mv.tracker))
        groups_moved(mv) ==
            indirect_moved(set_and_remove_from_usage_scope_sparse(
                               mv.tracker, mv.scope, indirect_buffer))
        merged(m) ==
            IF m.res /= Ok
            THEN [state EXCEPT !.scope = m.scope, !.res = m.res]
            ELSE groups_moved(set_and_remove_from_usage_scope_sparse(
                                  state.intermediate_trackers, m.scope,
                                  {e[1] : e \in used}))
    IN  merged(scope_merge_all(state.scope, used))

\* the HAL set_bind_group calls for the entries a binder operation returned
RECURSIVE rebind(_, _, _, _)
rebind(state, first_index, entries, k) ==
    IF k > Len(entries) THEN state
    ELSE LET e == entries[k]
             s1 == IF IsSome(e.group)
                   THEN emit(state, Hal("set_bind_group", Unwrap(e.group),
                                        <<first_index + k - 1>> \o e.dynamic_offsets))
                   ELSE state
         IN  rebind(s1, first_index, entries, k + 1)

\* BindGroup::validate_dynamic_bindings
validate_dynamic_bindings(g, offsets) ==
    IF Len(offsets) /= BindGroups[g].dynamic THEN Err("", "Bind")
    ELSE IF \E k \in 1 .. Len(offsets) : offsets[k] % DynamicOffsetAlignment /= 0
    THEN Err("", "Bind")
    ELSE Ok

\* variant: a set_bind_group that does not compare the index with
\* max_bind_groups
set_bind_group_any_index(state, dynamic_offsets, index, num_dynamic_offsets, bind_group) ==
    LET sliced(s1) ==
            LET v == validate_dynamic_bindings(bind_group, s1.temp_offsets)
            IN  IF v /= Ok THEN [s1 EXCEPT !.res = v] ELSE s1
    IN  IF ~same_device(BindGroups[bind_group].device) THEN fail(state, "DeviceMismatch")
        ELSE sliced([state EXCEPT
                        !.temp_offsets =
                            SubSeq(dynamic_offsets, state.dynamic_offset_count + 1,
                                   state.dynamic_offset_count + num_dynamic_offsets),
                        !.dynamic_offset_count = @ + num_dynamic_offsets])

set_bind_group(state, dynamic_offsets, index, num_dynamic_offsets, bind_group) ==
    LET assigned(s2, ag) ==
            IF ag.entries /= <<>> /\ IsSome(s2.binder.pipeline_layout)
            THEN rebind([s2 EXCEPT !.binder = ag.binder], index, ag.entries, 1)
            ELSE [s2 EXCEPT !.binder = ag.binder]
        used(s2) ==
            assigned(s2, assign_group(s2.binder, index, bind_group, s2.temp_offsets))
        sliced(s1) ==
            LET v == validate_dynamic_bindings(bind_group, s1.temp_offsets)
            IN  IF v /= Ok THEN [s1 EXCEPT !.res = v]
                ELSE used([s1 EXCEPT
                             !.buffer_memory_init_actions =
                                 @ \cup {e[1] : e \in BindGroups[bind_group].used},
                             !.pending_discard_init_fixups =
                                 @ \cup BindGroups[bind_group].discarded])
    IN  IF ~same_device(BindGroups[bind_group].device) THEN fail(state, "DeviceMismatch")
        ELSE IF index >= DeviceLimits.max_bind_groups
        THEN fail_info(state, "BindGroupIndexOutOfRange",
                       <<index, DeviceLimits.max_bind_groups>>)
        ELSE sliced([state EXCEPT
                        !.temp_offsets =
                            SubSeq(dynamic_offsets, state.dynamic_offset_count + 1,
                                   state.dynamic_offset_count + num_dynamic_offsets),
                        !.dynamic_offset_count = @ + num_dynamic_offsets])

\* variant: a set_pipeline that changes the layout of the binder without
\* binding the groups the change returns
set_pipeline_without_rebind(state, pipeline) ==
    LET layout == ComputePipelines[pipeline].layout
        pc_end == PipelineLayouts[layout].push_constant_end
        rebound(s2) ==
            IF pc_end > 0
            THEN emit(s2, Hal("set_push_constants", "clear",
                              <<0>> \o [k \in 1 .. (pc_end \div 4) |-> 0]))
            ELSE s2
        changed(s1, ch) == rebound([s1 EXCEPT !.binder = ch.binder])
        bound(s1) ==
            IF s1.binder.pipeline_layout = NoneOpt
               \/ Unwrap(s1.binder.pipeline_layout) /= layout
            THEN changed(s1, change_pipeline_layout(s1.binder, layout))
            ELSE s1
    IN  IF ~same_device(ComputePipelines[pipeline].device)
        THEN fail(state, "DeviceMismatch")
        ELSE bound(emit([state EXCEPT !.pipeline = Some(pipeline)],
                        Hal("set_compute_pipeline", pipeline, <<>>)))

set_pipeline(state, pipeline) ==
    LET layout == ComputePipelines[pipeline].layout
        pc_end == PipelineLayouts[layout].push_constant_end
        rebound(s2) ==
            IF pc_end > 0
            THEN emit(s2, Hal("set_push_constants", "clear",
                              <<0>> \o [k \in 1 .. (pc_end \div 4) |-> 0]))
            ELSE s2
        changed(s1, ch) ==
            rebound(rebind([s1 EXCEPT !.binder = ch.binder], ch.start_index, ch.entries, 1))
        bound(s1) ==
            IF s1.binder.pipeline_layout = NoneOpt
               \/ Unwrap(s1.binder.pipeline_layout) /= layout
            THEN changed(s1, change_pipeline_layout(s1.binder, layout))
            ELSE s1
    IN  IF ~same_device(ComputePipelines[pipeline].device)
        THEN fail(state, "DeviceMismatch")
        ELSE bound(emit([state EXCEPT !.pipeline = Some(pipeline)],
                        Hal("set_compute_pipeline", pipeline, <<>>)))

set_push_constant(state, push_constant_data, offset, size_bytes, values_offset) ==
    LET end_offset_bytes == offset + size_bytes
        values_end_offset == values_offset + size_bytes \div PUSH_CONSTANT_ALIGNMENT
        data_slice == SubSeq(push_constant_data, values_offset + 1, values_end_offset)
    IN  IF ~IsSome(state.binder.pipeline_layout)
        THEN fail(state, "Dispatch(MissingPipeline)")
        ELSE IF end_offset_bytes >
                PipelineLayouts[Unwrap(state.binder.pipeline_layout)].push_constant_end
        THEN fail(state, "PushConstants")
        ELSE emit(state, Hal("set_push_constants", "", <<offset>> \o data_slice))

\* variant: a dispatch that compares only the first dimension with the limit
dispatch_first_dimension(state, groups) ==
    LET groups_size_limit == DeviceLimits.max_compute_workgroups_per_dimension
        flushed(s1) ==
            IF s1.res /= Ok THEN s1
            ELSE IF groups[1] > groups_size_limit
            THEN fail_info(s1, "Dispatch(InvalidGroupSize)", groups \o <<groups_size_limit>>)
            ELSE emit(s1, Hal("dispatch", "", groups))
        ready(r) ==
            IF r /= Ok THEN [state EXCEPT !.res = r]
            ELSE flushed(flush_states(state, {}))
    IN  ready(is_ready(state))

dispatch(state, groups) ==
    LET groups_size_limit == DeviceLimits.max_compute_workgroups_per_dimension
        flushed(s1) ==
            IF s1.res /= Ok THEN s1
            ELSE IF groups[1] > groups_size_limit
                    \/ groups[2] > groups_size_limit
                    \/ groups[3] > groups_size_limit
            THEN fail_info(s1, "Dispatch(InvalidGroupSize)", groups \o <<groups_size_limit>>)
            ELSE emit(s1, Hal("dispatch", "", groups))
        ready(r) ==
            IF r /= Ok THEN [state EXCEPT !.res = r]
            ELSE flushed(flush_states(state, {}))
    IN  ready(is_ready(state))

\* dispatch_indirect; offset + size is a u64 addition, which wraps, or
\* panics in a build with overflow checks
dispatch_indirect(state, buffer, offset) ==
    LET end_offset == u64_add(offset, DispatchIndirectArgsSize)
        flushed(s2) ==
            IF s2.res /= Ok THEN s2
            ELSE emit(s2, Hal("dispatch_indirect", buffer, <<offset>>))
        merged(s1, res) ==
            IF res /= Ok THEN [s1 EXCEPT !.res = res]
            ELSE IF ~Buffers[buffer].indirect THEN fail(s1, "MissingBufferUsage")
            ELSE IF s1.overflow_checks /\ u64_add_overflows(offset, DispatchIndirectArgsSize)
            THEN fail(s1, "panic(attempt to add with overflow)")
            ELSE IF end_offset > Buffers[buffer].size
            THEN fail_info(s1, "IndirectBufferOverrun",
                           <<offset, end_offset, Buffers[buffer].size>>)
            ELSE flushed(flush_states(
                             [s1 EXCEPT !.buffer_memory_init_actions = @ \cup {buffer}],
                             {buffer}))
        scoped(m) == merged([state EXCEPT !.scope = m.scope], m.res)
        ready(r) ==
            IF r /= Ok THEN [state EXCEPT !.res = r]
            ELSE IF ~DeviceFeatures.INDIRECT_EXECUTION
            THEN fail(state, "MissingDownlevelFlags")
            ELSE scoped(scope_merge_single(state.scope, buffer, "INDIRECT"))
    IN  IF ~same_device(Buffers[buffer].device) THEN fail(state, "DeviceMismatch")
        ELSE ready(is_ready(state))

push_debug_group(state, string_data, len) ==
    LET s1 == [state EXCEPT !.debug_scope_depth = @ + 1]
        label == SubSeq(string_data, s1.string_offset + 1, s1.string_offset + len)
        s2 == IF ~s1.discard_hal_labels
              THEN emit(s1, Hal("begin_debug_marker", "", label))
              ELSE s1
    IN  [s2 EXCEPT !.string_offset = @ + len]

\* variant: a pop_debug_group that does not look at the depth
pop_debug_group_unchecked(state) ==
    LET s1 == [state EXCEPT !.debug_scope_depth = @ - 1]
    IN  IF ~s1.discard_hal_labels
        THEN emit(s1, Hal("end_debug_marker", "", <<>>))
        ELSE s1

pop_debug_group(state) ==
    IF state.debug_scope_depth = 0 THEN fail(state, "InvalidPopDebugGroup")
    ELSE LET s1 == [state EXCEPT !.debug_scope_depth = @ - 1]
         IN  IF ~s1.discard_hal_labels
             THEN emit(s1, Hal("end_debug_marker", "", <<>>))
             ELSE s1

\* A faulty insert_debug_marker, for sensitivity analysis: it advances
\* string_offset only when the label is handed to the HAL
insert_debug_marker_within_branch(state, string_data, len) ==
    IF ~state.discard_hal_labels
    THEN [state EXCEPT
            !.raw_encoder =
                Append(@, [call |-> "insert_debug_marker", id |-> "",
                           nums |-> SubSeq(string_data, state.string_offset + 1,
                                           state.string_offset + len),
                           barriers |-> {}]),
            !.string_offset = @ + len]
    ELSE state

insert_debug_marker(state, string_data, len) ==
    LET label == SubSeq(string_data, state.string_offset + 1, state.string_offset + len)
        s1 == IF ~state.discard_hal_labels
              THEN emit(state, Hal("insert_debug_marker", "", label))
              ELSE state
    IN  [s1 EXCEPT !.string_offset = @ + len]

write_timestamp(state, query_set, query_index) ==
    IF ~same_device(QuerySets[query_set].device) THEN fail(state, "DeviceMismatch")
    ELSE IF ~DeviceFeatures.TIMESTAMP_QUERY_INSIDE_PASSES THEN fail(state, "MissingFeatures")
    ELSE IF QuerySets[query_set].type /= "Timestamp"
            \/ query_index >= QuerySets[query_set].count
    THEN fail(state, "QueryUse")
    ELSE emit(state, Hal("write_timestamp", query_set, <<query_index>>))

validate_and_begin_pipeline_statistics_query(state, query_set, query_index) ==
    IF ~same_device(QuerySets[query_set].device) THEN fail(state, "DeviceMismatch")
    ELSE IF ~DeviceFeatures.PIPELINE_STATISTICS_QUERY THEN fail(state, "MissingFeatures")
    ELSE IF IsSome(state.active_query) THEN fail(state, "QueryUse")
    ELSE IF QuerySets[query_set].type /= "PipelineStatistics"
            \/ query_index >= QuerySets[query_set].count
    THEN fail(state, "QueryUse")
    ELSE emit([state EXCEPT !.active_query = Some(<<query_set, query_index>>)],
              Hal("begin_query", query_set, <<query_index>>))

end_pipeline_statistics_query(state) ==
    IF IsSome(state.active_query)
    THEN emit([state EXCEPT !.active_query = NoneOpt],
              Hal("end_query", Unwrap(state.active_query)[1],
                  <<Unwrap(state.active_query)[2]>>))
    ELSE fail(state, "QueryUse")

\* PassErrorScope of a command kind; Dispatch { indirect: false } is written
\* "Dispatch" and Dispatch { indirect: true } "DispatchIndirect"
scope_of(kind) ==
    IF kind = "SetPipeline" THEN "SetPipelineCompute" ELSE kind

\* one arm of the replay loop's match
replay_command(state, base, command) ==
    LET k == command.kind
        arm(s) ==
            IF s.res /= Ok
            THEN [s EXCEPT !.res = map_pass_err(s.res, scope_of(k))]
            ELSE [s EXCEPT !.replayed = @ + 1]
    IN  arm(IF k = "SetBindGroup"
            THEN set_bind_group(state, base.dynamic_offsets, command.index,
                                command.num_dynamic_offsets, command.bind_group)
            ELSE IF k = "SetPipeline" THEN set_pipeline(state, command.pipeline)
            ELSE IF k = "SetPushConstant"
            THEN set_push_constant(state, base.push_constant_data, command.offset,
                                   command.size_bytes, command.values_offset)
            ELSE IF k = "Dispatch" THEN dispatch(state, command.groups)
            ELSE IF k = "DispatchIndirect"
            THEN dispatch_indirect(state, command.buffer, command.offset)
            ELSE IF k = "PushDebugGroup"
            THEN push_debug_group(state, base.string_data, command.len)
            ELSE IF k = "PopDebugGroup" THEN pop_debug_group(state)
            ELSE IF k = "InsertDebugMarker"
            THEN insert_debug_marker(state, base.string_data, command.len)
            ELSE IF k = "WriteTimestamp"
            THEN write_timestamp(state, command.query_set, command.query_index)
            ELSE IF k = "BeginPipelineStatisticsQuery"
            THEN validate_and_begin_pipeline_statistics_query(
                     state, command.query_set, command.query_index)
            ELSE end_pipeline_statistics_query(state))

\* for command in base.commands { ... ? }
\* variant: a replay loop that goes on after a failing command and returns
\* the first error at the end
RECURSIVE replay_through_errors(_, _, _)
replay_through_errors(state, base, i) ==
    LET next(s) ==
            replay_through_errors(IF state.res /= Ok THEN [s EXCEPT !.res = state.res] ELSE s,
                                  base, i + 1)
    IN  IF i > Len(base.commands) THEN state
        ELSE next(replay_command([state EXCEPT !.res = Ok], base, base.commands[i]))

RECURSIVE replay(_, _, _)
replay(state, base, i) ==
    IF i > Len(base.commands) \/ state.res /= Ok THEN state
    ELSE replay(replay_command(state, base, base.commands[i]), base, i + 1)

----------------------------------------------------------------------------
(* Running the compute pass                                                *)

\* Global::command_encoder_create_compute_pass: the pass, the encoder status
\* it leaves, and the error returned alongside
command_encoder_create_compute_pass(status, encoder_id, timestamp_writes) ==
    IF encoder_id \notin CommandEncoders
    THEN [pass |-> ComputePass_new(NoneOpt, NoneOpt), status |-> status,
          res |-> Err("", "Invalid")]
    ELSE
    LET lk == lock_encoder(status) IN
    IF lk.res /= Ok
    THEN [pass |-> ComputePass_new(NoneOpt, NoneOpt), status |-> lk.status, res |-> lk.res]
    ELSE IF timestamp_writes = NoneOpt
    THEN [pass |-> ComputePass_new(Some(encoder_id), NoneOpt), status |-> lk.status,
          res |-> Ok]
    ELSE
    LET tw == Unwrap(timestamp_writes) IN
    IF tw.query_set \notin DOMAIN QuerySets
    THEN [pass |-> ComputePass_new(NoneOpt, NoneOpt), status |-> lk.status,
          res |-> Err("", "InvalidTimestampWritesQuerySetId")]
    ELSE IF ~same_device(QuerySets[tw.query_set].device)
    THEN [pass |-> ComputePass_new(NoneOpt, NoneOpt), status |-> lk.status,
          res |-> Err("", "DeviceMismatch")]
    ELSE [pass |-> ComputePass_new(Some(encoder_id), timestamp_writes),
          status |-> lk.status, res |-> Ok]

\* the range of queries reset for the pass's timestamp writes
reset_range(tw) ==
    IF IsSome(tw.beginning_of_pass_write_index) /\ IsSome(tw.end_of_pass_write_index)
    THEN LET index_a == Unwrap(tw.beginning_of_pass_write_index)
             index_b == Unwrap(tw.end_of_pass_write_index)
         IN  Some(<<Min(index_a, index_b), u32_add(Max(index_a, index_b), 1)>>)
    ELSE IF IsSome(tw.beginning_of_pass_write_index)
    THEN Some(<<Unwrap(tw.beginning_of_pass_write_index),
                u32_add(Unwrap(tw.beginning_of_pass_write_index), 1)>>)
    ELSE IF IsSome(tw.end_of_pass_write_index)
    THEN Some(<<Unwrap(tw.end_of_pass_write_index),
                u32_add(Unwrap(tw.end_of_pass_write_index), 1)>>)
    ELSE NoneOpt

\* the `+ 1` of the range is a u32 addition: it overflows at u32::MAX
reset_range_overflows(tw) ==
    \/ /\ IsSome(tw.beginning_of_pass_write_index)
       /\ u32_add_overflows(Unwrap(tw.beginning_of_pass_write_index), 1)
    \/ /\ IsSome(tw.end_of_pass_write_index)
       /\ u32_add_overflows(Unwrap(tw.end_of_pass_write_index), 1)

\* the State at the head of the replay loop: reset_queries for the timestamp
\* writes, then begin_compute_pass; in a build with overflow checks the
\* range computation panics when it overflows, before any HAL call
begin_pass(cb, timestamp_writes, discard_labels) ==
    LET s0 == [State_new(cb.trackers, discard_labels) EXCEPT
                   !.buffer_memory_init_actions = cb.buffer_memory_init_actions,
                   !.overflow_checks = cb.overflow_checks]
        s1 == IF IsSome(timestamp_writes) /\ IsSome(reset_range(Unwrap(timestamp_writes)))
              THEN emit(s0, Hal("reset_queries", Unwrap(timestamp_writes).query_set,
                                Unwrap(reset_range(Unwrap(timestamp_writes)))))
              ELSE s0
    IN  IF /\ IsSome(timestamp_writes)
           /\ cb.overflow_checks
           /\ reset_range_overflows(Unwrap(timestamp_writes))
        THEN fail(s0, "panic(attempt to add with overflow)")
        ELSE emit(s1, Hal("begin_compute_pass",
                          IF IsSome(timestamp_writes)
                          THEN Unwrap(timestamp_writes).query_set
                          ELSE "",
                          <<>>))

\* fixup_discarded_surfaces: a zero-clear for every pending discard fixup
RECURSIVE fixup_discarded_surfaces(_, _)
fixup_discarded_surfaces(calls, fixups) ==
    IF fixups = {} THEN calls
    ELSE LET t == CHOOSE x \in fixups : TRUE
         IN  fixup_discarded_surfaces(Append(calls, Hal("clear_texture", t, <<>>)),
                                      fixups \ {t})

\* CommandBuffer::insert_barriers_from_tracker: the barrier prelude, one
\* transition for each resource the pass used, from the usage the command
\* buffer tracks to the first usage in the pass, and the command buffer's
\* trackers brought to the pass's final usages
insert_barriers_from_tracker(calls, tracker, intermediate) ==
    LET used == {r \in Resources : intermediate.start[r] /= {}}
        barriers == {<<r, tracker[r], intermediate.start[r]>> : r \in used}
    IN  [calls |-> IF barriers = {} THEN calls
                   ELSE Append(calls, HalBarriers("transition_buffers", barriers)),
         tracker |-> [r \in Resources |->
                        IF r \in used THEN intermediate.end[r] ELSE tracker[r]]]

\* what compute_pass_end_impl hands back: the command buffer as it leaves
\* it, the result, the replay State and whether the replay loop was entered
EndRet(cb, res, state, began) ==
    [cmd_buf |-> cb, res |-> res, state |-> state, began |-> began]

\* the encoder status while the body is replayed; taken for the status
\* after the replay in the sensitivity analysis of the Ok path
status_during_replay == "Error"

\* the encoder status once the replay loop and end_compute_pass are through
status_after_replay == "Recording"

\* variant: a tail that emits the barrier prelude before the zero-clears
finish_pass_barriers_first(cb, p, state, fault) ==
    LET pass_scope == "Pass"
        swapped(cb4, st, cs) ==
            EndRet([cb4 EXCEPT !.encoder = cs.enc], map_pass_err(cs.res, pass_scope),
                   st, TRUE)
        prelude(cb3, st, br) ==
            swapped([cb3 EXCEPT !.trackers = br.tracker], st,
                    encoder_close_and_swap(
                        [cb3.encoder EXCEPT !.raw.calls = br.calls],
                        fault /= "close_and_swap"))
        fixed(cb3, st, br) ==
            prelude(cb3, st,
                    [br EXCEPT !.calls =
                         fixup_discarded_surfaces(@, st.pending_discard_init_fixups)])
        opened(cb2, st, o2) ==
            IF o2.res /= Ok
            THEN EndRet([cb2 EXCEPT !.encoder = o2.enc], map_pass_err(o2.res, pass_scope),
                        st, TRUE)
            ELSE fixed([cb2 EXCEPT !.encoder = o2.enc], st,
                       insert_barriers_from_tracker(<<>>, st.tracker,
                                                    st.intermediate_trackers))
        closed(cb1, st, c2) ==
            IF c2.res /= Ok
            THEN EndRet([cb1 EXCEPT !.encoder = c2.enc], map_pass_err(c2.res, pass_scope),
                        st, TRUE)
            ELSE opened([cb1 EXCEPT !.encoder = c2.enc], st,
                        encoder_open(c2.enc, fault /= "open2", "pre_body", p))
        recording(cb1, st) ==
            closed(cb1, st, encoder_close(cb1.encoder, fault /= "close2"))
        ended(st) ==
            recording([cb EXCEPT !.status = status_after_replay,
                                 !.encoder.raw.calls = st.raw_encoder,
                                 !.buffer_memory_init_actions = st.buffer_memory_init_actions],
                      st)
    IN  ended(emit(state, Hal("end_compute_pass", "", <<>>)))

\* the tail of compute_pass_end_impl: end_compute_pass, back to Recording,
\* close the body, open the pre-body, fixups and barriers, close_and_swap
finish_pass(cb, p, state, fault) ==
    LET pass_scope == "Pass"
        swapped(cb4, st, cs) ==
            EndRet([cb4 EXCEPT !.encoder = cs.enc], map_pass_err(cs.res, pass_scope),
                   st, TRUE)
        prelude(cb3, st, br) ==
            swapped([cb3 EXCEPT !.trackers = br.tracker], st,
                    encoder_close_and_swap(
                        [cb3.encoder EXCEPT !.raw.calls = br.calls],
                        fault /= "close_and_swap"))
        opened(cb2, st, o2) ==
            IF o2.res /= Ok
            THEN EndRet([cb2 EXCEPT !.encoder = o2.enc], map_pass_err(o2.res, pass_scope),
                        st, TRUE)
            ELSE prelude([cb2 EXCEPT !.encoder = o2.enc], st,
                         insert_barriers_from_tracker(
                             fixup_discarded_surfaces(<<>>, st.pending_discard_init_fixups),
                             st.tracker, st.intermediate_trackers))
        closed(cb1, st, c2) ==
            IF c2.res /= Ok
            THEN EndRet([cb1 EXCEPT !.encoder = c2.enc], map_pass_err(c2.res, pass_scope),
                        st, TRUE)
            ELSE opened([cb1 EXCEPT !.encoder = c2.enc], st,
                        encoder_open(c2.enc, fault /= "open2", "pre_body", p))
        recording(cb1, st) ==
            closed(cb1, st, encoder_close(cb1.encoder, fault /= "close2"))
        ended(st) ==
            recording([cb EXCEPT !.status = status_after_replay,
                                 !.encoder.raw.calls = st.raw_encoder,
                                 !.buffer_memory_init_actions = st.buffer_memory_init_actions],
                      st)
    IN  ended(emit(state, Hal("end_compute_pass", "", <<>>)))

\* Global::compute_pass_end_impl
compute_pass_end_impl(cb, p, base, timestamp_writes, fault, discard_labels) ==
    LET pass_scope == "Pass"
        no_state == State_new(cb.trackers, discard_labels)
        replayed(cb2, st) ==
            IF st.res /= Ok
            THEN EndRet([cb2 EXCEPT !.encoder.raw.calls = st.raw_encoder,
                                    !.buffer_memory_init_actions =
                                        st.buffer_memory_init_actions],
                        st.res, st, TRUE)
            ELSE finish_pass(cb2, p, st, fault)
        begun(cb2) ==
            replayed(cb2, replay(begin_pass(cb2, timestamp_writes, discard_labels), base, 1))
        opened(cb1, o1) ==
            IF o1.res /= Ok
            THEN EndRet([cb1 EXCEPT !.encoder = o1.enc], map_pass_err(o1.res, pass_scope),
                        no_state, FALSE)
            ELSE begun([cb1 EXCEPT !.encoder = o1.enc])
        closed(c1) ==
            IF c1.res /= Ok
            THEN EndRet([cb EXCEPT !.encoder = c1.enc], map_pass_err(c1.res, pass_scope),
                        no_state, FALSE)
            ELSE opened([cb EXCEPT !.encoder = c1.enc, !.status = "Error"],
                        encoder_open(c1.enc, fault /= "open1", "body", p))
    IN  IF fault = "device" THEN EndRet(cb, Err(pass_scope, "Device"), no_state, FALSE)
        ELSE closed(encoder_close(cb.encoder, fault /= "close1"))

\* A faulty compute_pass_end, for sensitivity analysis: it reads the record
\* and leaves it in the pass
compute_pass_end_keep_record(pass, cb, p, fault, discard_labels) ==
    LET no_state == State_new(cb.trackers, discard_labels)
        unlocked(cb1) ==
            IF ~IsSome(pass.base)
            THEN [pass |-> pass, ran |-> FALSE,
                  ret |-> EndRet(cb1, Err("Pass", "PassEnded"), no_state, FALSE)]
            ELSE [pass |-> pass, ran |-> TRUE,
                  ret |-> compute_pass_end_impl(cb1, p, Unwrap(pass.base),
                                                pass.timestamp_writes, fault,
                                                discard_labels)]
        unlock(ul) ==
            IF ul.res /= Ok
            THEN [pass |-> pass, ran |-> FALSE,
                  ret |-> EndRet(cb, map_pass_err(ul.res, "Pass"), no_state, FALSE)]
            ELSE unlocked([cb EXCEPT !.status = ul.status])
    IN  IF ~IsSome(pass.parent)
        THEN [pass |-> pass, ran |-> FALSE,
              ret |-> EndRet(cb, Err("Pass(None)", "InvalidParentEncoder"), no_state, FALSE)]
        ELSE unlock(unlock_encoder(cb.status))

\* Global::compute_pass_end: the pass and command buffer as the call leaves
\* them, the result, and whether compute_pass_end_impl ran
compute_pass_end(pass, cb, p, fault, discard_labels) ==
    LET no_state == State_new(cb.trackers, discard_labels)
        unlocked(cb1) ==
            IF ~IsSome(pass.base)
            THEN [pass |-> pass, ran |-> FALSE,
                  ret |-> EndRet(cb1, Err("Pass", "PassEnded"), no_state, FALSE)]
            ELSE [pass |-> [pass EXCEPT !.base = NoneOpt, !.timestamp_writes = NoneOpt],
                  ran |-> TRUE,
                  ret |-> compute_pass_end_impl(cb1, p, Unwrap(pass.base),
                                                pass.timestamp_writes, fault,
                                                discard_labels)]
        unlock(ul) ==
            IF ul.res /= Ok
            THEN [pass |-> pass, ran |-> FALSE,
                  ret |-> EndRet(cb, map_pass_err(ul.res, "Pass"), no_state, FALSE)]
            ELSE unlocked([cb EXCEPT !.status = ul.status])
    IN  IF ~IsSome(pass.parent)
        THEN [pass |-> pass, ran |-> FALSE,
              ret |-> EndRet(cb, Err("Pass(None)", "InvalidParentEncoder"), no_state, FALSE)]
        ELSE unlock(unlock_encoder(cb.status))

----------------------------------------------------------------------------
(* The state machine: one action per API call                              *)

\* the last API call: create_compute_pass, a recording call ("record") or
\* compute_pass_end, the pass it was made on, the result it returned and,
\* for compute_pass_end, whether compute_pass_end_impl ran; of a recording
\* call the error kind is kept and the scope is not
Call(op, p, res, ran) == [op |-> op, pass |-> p, res |-> res, ran |-> ran]

Handles == 1 .. Len(passes)

encoder_new(open) ==
    [is_open |-> open,
     raw |-> IF open THEN Segment("prior", 0, <<Hal("copy_buffer_to_buffer", "", <<>>)>>)
             ELSE NoSegment,
     list |-> <<>>]

\* a fresh command encoder in the Recording state, with or without an open
\* segment of earlier commands, in a build with or without overflow checks;
\* no pass created yet
InitBuild(opens, discards, checks) ==
    /\ passes = <<>>
    /\ \E open \in opens, overflow_checks \in checks :
           cmd_buf = [status |-> "Recording", encoder |-> encoder_new(open),
                      trackers |-> EmptyUsages, buffer_memory_init_actions |-> {},
                      overflow_checks |-> overflow_checks]
    /\ device \in [discard_hal_labels : discards]
    /\ last = Call("init", 0, Ok, FALSE)
    /\ ncalls = 0
    /\ passed = <<>>
    /\ finalized = <<>>
    /\ end_called = <<>>
    /\ fin = [pass |-> 0, base |-> BasePass_new, timestamp_writes |-> NoneOpt,
              begin |-> State_new(EmptyUsages, FALSE),
              state |-> State_new(EmptyUsages, FALSE)]

\* the same, in a build that wraps on integer overflow
InitWith(opens, discards) == InitBuild(opens, discards, {FALSE})

CreateComputePass(encoder_ids, descs, budget) ==
    LET created(r) ==
            /\ passes' = Append(passes, r.pass)
            /\ cmd_buf' = [cmd_buf EXCEPT !.status = r.status]
            /\ last' = Call("create_compute_pass", Len(passes) + 1, r.res, FALSE)
    IN  /\ ncalls < budget
        /\ ncalls' = ncalls + 1
        /\ \E encoder_id \in encoder_ids, tw \in descs :
               created(command_encoder_create_compute_pass(cmd_buf.status, encoder_id, tw))
        /\ passed' = Append(passed, <<>>)
        /\ finalized' = Append(finalized, 0)
        /\ end_called' = Append(end_called, FALSE)
        /\ UNCHANGED <<device, fin>>

commands_of(pass) == IF IsSome(pass.base) THEN Unwrap(pass.base).commands ELSE <<>>

\* variant: a recording call that releases the encoder as compute_pass_end
\* does
Recorded_unlocking(p, r, side, budget) ==
    /\ (r.pass.base /= passes[p].base) => ncalls < budget
    /\ passes' = [passes EXCEPT ![p] = r.pass]
    /\ ncalls' = IF r.pass.base /= passes[p].base THEN ncalls + 1 ELSE ncalls
    /\ passed' = IF Len(commands_of(r.pass)) > Len(commands_of(passes[p]))
                 THEN [passed EXCEPT ![p] = Append(@, side)]
                 ELSE passed
    /\ last' = Call("record", p, [r.res EXCEPT !.scope = ""], FALSE)
    /\ cmd_buf' = [cmd_buf EXCEPT !.status = "Recording"]
    /\ UNCHANGED <<device, finalized, end_called, fin>>

\* a recording call on pass p that returned r; `side` is the side data
\* (dynamic offsets, label, push constant bytes) the call passed
Recorded(p, r, side, budget) ==
    /\ (r.pass.base /= passes[p].base) => ncalls < budget
    /\ passes' = [passes EXCEPT ![p] = r.pass]
    /\ ncalls' = IF r.pass.base /= passes[p].base THEN ncalls + 1 ELSE ncalls
    /\ passed' = IF Len(commands_of(r.pass)) > Len(commands_of(passes[p]))
                 THEN [passed EXCEPT ![p] = Append(@, side)]
                 ELSE passed
    /\ last' = Call("record", p, [r.res EXCEPT !.scope = ""], FALSE)
    /\ UNCHANGED <<cmd_buf, device, finalized, end_called, fin>>

SetBindGroup(indices, ids, offs, budget) ==
    \E p \in Handles, index \in indices, id \in ids, offsets \in offs :
        Recorded(p, compute_pass_set_bind_group(passes[p], index, id, offsets),
                 offsets, budget)

SetPipeline(ids, budget) ==
    \E p \in Handles, id \in ids :
        Recorded(p, compute_pass_set_pipeline(passes[p], id), <<>>, budget)

SetPushConstant(offsets, datas, budget) ==
    \E p \in Handles, offset \in offsets, data \in datas :
        Recorded(p, compute_pass_set_push_constant(passes[p], offset, data), data, budget)

DispatchWorkgroups(sizes, budget) ==
    \E p \in Handles, g \in sizes :
        Recorded(p, compute_pass_dispatch_workgroups(passes[p], g[1], g[2], g[3]),
                 <<>>, budget)

DispatchWorkgroupsIndirect(ids, offsets, budget) ==
    \E p \in Handles, id \in ids, offset \in offsets :
        Recorded(p, compute_pass_dispatch_workgroups_indirect(passes[p], id, offset),
                 <<>>, budget)

PushDebugGroup(labels, budget) ==
    \E p \in Handles, label \in labels :
        Recorded(p, compute_pass_push_debug_group(passes[p], label), label, budget)

PopDebugGroup(budget) ==
    \E p \in Handles :
        Recorded(p, compute_pass_pop_debug_group(passes[p]), <<>>, budget)

InsertDebugMarker(labels, budget) ==
    \E p \in Handles, label \in labels :
        Recorded(p, compute_pass_insert_debug_marker(passes[p], label), label, budget)

WriteTimestamp(ids, indices, budget) ==
    \E p \in Handles, id \in ids, i \in indices :
        Recorded(p, compute_pass_write_timestamp(passes[p], id, i), <<>>, budget)

BeginPipelineStatisticsQuery(ids, indices, budget) ==
    \E p \in Handles, id \in ids, i \in indices :
        Recorded(p, compute_pass_begin_pipeline_statistics_query(passes[p], id, i),
                 <<>>, budget)

EndPipelineStatisticsQuery(budget) ==
    \E p \in Handles :
        Recorded(p, compute_pass_end_pipeline_statistics_query(passes[p]), <<>>, budget)

\* compute_pass_end on pass p; `fault` names the step of finalization, if
\* any, at which the device or the HAL encoder fails
EndPass(faults) ==
    LET returned(p, r) ==
            /\ passes' = [passes EXCEPT ![p] = r.pass]
            /\ cmd_buf' = r.ret.cmd_buf
            /\ last' = Call("end", p, r.ret.res, r.ran)
            /\ finalized' = [finalized EXCEPT ![p] = IF r.ret.began THEN @ + 1 ELSE @]
            /\ end_called' = [end_called EXCEPT ![p] = TRUE]
            /\ fin' = IF r.ret.began
                      THEN [pass |-> p, base |-> Unwrap(passes[p].base),
                            timestamp_writes |-> passes[p].timestamp_writes,
                            begin |-> begin_pass(cmd_buf, passes[p].timestamp_writes,
                                                 device.discard_hal_labels),
                            state |-> r.ret.state]
                      ELSE fin
            /\ UNCHANGED <<device, ncalls, passed>>
    IN  \E p \in Handles, fault \in faults :
            returned(p, compute_pass_end(passes[p], cmd_buf, p, fault,
                                         device.discard_hal_labels))

----------------------------------------------------------------------------
(* The lifecycle specification: every API call, one input each, every      *)
(* fault of finalization                                                   *)

NoTimestampWrites == NoneOpt
TimestampWrites(qs, b, e) ==
    Some([query_set |-> qs, beginning_of_pass_write_index |-> b,
          end_of_pass_write_index |-> e])

Faults == {"none", "device", "close1", "open1", "close2", "open2", "close_and_swap"}

Init == InitWith({TRUE}, {FALSE})

Next ==
    \/ CreateComputePass({"E1", "E_bad"}, {NoTimestampWrites}, MaxCalls)
    \/ SetBindGroup({0}, {"G1"}, {<<>>}, MaxCalls)
    \/ SetPipeline({"P0"}, MaxCalls)
    \/ SetPushConstant({0}, {<<1, 0, 0, 0>>}, MaxCalls)
    \/ DispatchWorkgroups({<<1, 1, 1>>}, MaxCalls)
    \/ DispatchWorkgroupsIndirect({"B1"}, {0}, MaxCalls)
    \/ PushDebugGroup({<<97>>}, MaxCalls)
    \/ PopDebugGroup(MaxCalls)
    \/ InsertDebugMarker({<<98>>}, MaxCalls)
    \/ WriteTimestamp({"Q1"}, {0}, MaxCalls)
    \/ BeginPipelineStatisticsQuery({"Q2"}, {0}, MaxCalls)
    \/ EndPipelineStatisticsQuery(MaxCalls)
    \/ EndPass(Faults)

Spec == Init /\ [][Next]_vars

----------------------------------------------------------------------------
(* The bind group specification: set_bind_group with valid and invalid     *)
(* ids and with dynamic offsets, on a pipeline layout that expects the     *)
(* group at slot 1                                                         *)

\* number of calls that create a pass or change a record, under SpecBind
MaxBindCalls == 4

InitBind == InitWith({FALSE}, {FALSE})

NextBind ==
    \/ CreateComputePass({"E1"}, {NoTimestampWrites}, MaxBindCalls)
    \/ SetBindGroup({1}, {"G2", "G_bad"}, {<<4>>, <<8>>}, MaxBindCalls)
    \/ SetPipeline({"P2"}, MaxBindCalls)
    \/ EndPass({"none"})

SpecBind == InitBind /\ [][NextBind]_vars

----------------------------------------------------------------------------
(* The debug label specification: labels of different lengths, with and    *)
(* without DISCARD_HAL_LABELS                                              *)

\* number of calls that create a pass or change a record, under SpecLabels
MaxLabelCalls == 4

InitLabels == InitWith({FALSE}, {FALSE, TRUE})

NextLabels ==
    \/ CreateComputePass({"E1"}, {NoTimestampWrites}, MaxLabelCalls)
    \/ PushDebugGroup({<<97>>, <<98, 99>>}, MaxLabelCalls)
    \/ PopDebugGroup(MaxLabelCalls)
    \/ InsertDebugMarker({<<100>>}, MaxLabelCalls)
    \/ EndPass({"none"})

SpecLabels == InitLabels /\ [][NextLabels]_vars

----------------------------------------------------------------------------
(* Properties                                                              *)

\* the record of pass p has been taken
Ended(p) == ~IsSome(passes[p].base)

\* pass p was returned together with an error: it has no parent
Invalid(p) == ~IsSome(passes[p].parent)

\* every recording operation applied to `pass`, with ids the registries hold
\* and ids they do not, each with the scope of the operation
RecordingCalls(pass) ==
    {[scope |-> "SetBindGroup", ret |-> compute_pass_set_bind_group(pass, i, g, o)] :
        i \in {0, 1}, g \in {"G1", "G_bad"}, o \in {<<>>, <<4>>}}
    \cup {[scope |-> "SetPipelineCompute", ret |-> compute_pass_set_pipeline(pass, id)] :
             id \in {"P0", "P_bad"}}
    \cup {[scope |-> "SetPushConstant",
           ret |-> compute_pass_set_push_constant(pass, off, data)] :
             off \in {0, 2}, data \in {<<1, 0, 0, 0>>, <<1>>}}
    \cup {[scope |-> "Dispatch", ret |-> compute_pass_dispatch_workgroups(pass, 1, 1, 1)],
          [scope |-> "PopDebugGroup", ret |-> compute_pass_pop_debug_group(pass)],
          [scope |-> "PushDebugGroup", ret |-> compute_pass_push_debug_group(pass, <<97>>)],
          [scope |-> "InsertDebugMarker",
           ret |-> compute_pass_insert_debug_marker(pass, <<98>>)],
          [scope |-> "EndPipelineStatisticsQuery",
           ret |-> compute_pass_end_pipeline_statistics_query(pass)]}
    \cup {[scope |-> "DispatchIndirect",
           ret |-> compute_pass_dispatch_workgroups_indirect(pass, id, 0)] :
             id \in {"B1", "B_bad"}}
    \cup {[scope |-> "WriteTimestamp", ret |-> compute_pass_write_timestamp(pass, id, 0)] :
             id \in {"Q1", "Q_bad"}}
    \cup {[scope |-> "BeginPipelineStatisticsQuery",
           ret |-> compute_pass_begin_pipeline_statistics_query(pass, id, 0)] :
             id \in {"Q2", "Q_bad"}}

\* C1: on a pass whose record has been taken, every recording operation
\* returns PassEnded in its own scope and leaves the record absent, also when
\* the redundancy filter already holds the pipeline or bind group of the call
C1_EndedPassRejectsRecording ==
    \A p \in Handles :
        Ended(p) =>
            \A c \in RecordingCalls(passes[p]) :
                /\ c.ret.res = Err(c.scope, "PassEnded")
                /\ ~IsSome(c.ret.pass.base)

\* a recording call has just returned PassEnded on an ended pass whose
\* filter holds pipeline P0, the pipeline every set_pipeline call names
C1_Witness ==
    /\ last.op = "record"
    /\ last.res.inner = "PassEnded"
    /\ Ended(last.pass)
    /\ passes[last.pass].current_pipeline = Some("P0")

\* C2: on an invalid pass (no parent), every recording operation and
\* compute_pass_end return an error
C2_InvalidPassRejectsEverything ==
    (last.op \in {"record", "end"} /\ Invalid(last.pass)) => last.res.inner /= "Ok"

\* C3: once compute_pass_end has returned on a pass, with Ok or with an
\* error, every later recording operation on it fails with PassEnded
C3_NoRecordingAfterEnd ==
    (last.op = "record" /\ end_called[last.pass]) => last.res.inner = "PassEnded"

\* C4: the replay of a pass's record is entered at most once, and a record
\* that has been taken never becomes present again
C4_RecordReplayedAtMostOnce ==
    /\ [](\A p \in Handles : finalized[p] <= 1)
    /\ [][\A p \in Handles : Ended(p) => ~IsSome(passes'[p].base)]_vars

\* compute_pass_end was called again on a pass whose record was replayed,
\* got past the encoder unlock, and was refused with PassEnded
C4_Witness ==
    /\ last.op = "end"
    /\ last.res.inner = "PassEnded"
    /\ ~last.ran
    /\ finalized[last.pass] = 1

\* C5: when compute_pass_end_impl returns an error, whichever step failed,
\* the parent encoder's status is Error
C5_FinalizationErrorLeavesError ==
    (last.op = "end" /\ last.ran /\ last.res.inner /= "Ok") => cmd_buf.status = "Error"

\* the last two committed segments are the pre-body and then the body of
\* pass p, and the body ends with end_compute_pass
SplicedBeforeBody(list, p) ==
    /\ Len(list) >= 2
    /\ list[Len(list) - 1].part = "pre_body"
    /\ list[Len(list) - 1].pass = p
    /\ list[Len(list)].part = "body"
    /\ list[Len(list)].pass = p
    /\ list[Len(list)].calls /= <<>>
    /\ list[Len(list)].calls[Len(list[Len(list)].calls)].call = "end_compute_pass"

\* C6: whenever compute_pass_end returns Ok, the encoder's status is
\* Recording, no segment is left open, and the committed list ends with the
\* pass's pre-body segment followed by its body segment, whose last call is
\* end_compute_pass
C6_EndOkLeavesRecordingAndSpliced ==
    (last.op = "end" /\ last.res.inner = "Ok") =>
        /\ cmd_buf.status = "Recording"
        /\ ~cmd_buf.encoder.is_open
        /\ SplicedBeforeBody(cmd_buf.encoder.list, last.pass)

\* compute_pass_end has just returned Ok for a pass with a recorded command,
\* on an encoder that held an earlier segment
C6_Witness ==
    /\ last.op = "end"
    /\ last.res.inner = "Ok"
    /\ fin.pass = last.pass
    /\ fin.base.commands /= <<>>
    /\ Len(cmd_buf.encoder.list) = 3

\* C7: when compute_pass_end_impl returns an error, no committed segment of
\* the encoder holds commands of that pass
C7_FailedPassCommitsNothing ==
    (last.op = "end" /\ last.ran /\ last.res.inner /= "Ok") =>
        \A k \in 1 .. Len(cmd_buf.encoder.list) :
            cmd_buf.encoder.list[k].pass /= last.pass

\* C8: a recording operation that returns an error on a pass that is not
\* ended leaves the record as it was
C8_FailedRecordingLeavesRecord ==
    [][(/\ last'.op = "record"
        /\ last'.res.inner \notin {"Ok", "PassEnded"})
       => passes'[last'.pass].base = passes[last'.pass].base]_vars

\* the sum of num_dynamic_offsets over the SetBindGroup commands
NumDynamicOffsets(commands) ==
    SumSeq([k \in 1 .. Len(commands) |->
               IF commands[k].kind = "SetBindGroup"
               THEN commands[k].num_dynamic_offsets ELSE 0])

\* C9: in every record, the sum of num_dynamic_offsets over the SetBindGroup
\* commands equals the length of dynamic_offsets
C9_DynamicOffsetsLaw ==
    \A p \in Handles :
        ~Ended(p) =>
            NumDynamicOffsets(Unwrap(passes[p].base).commands)
                = Len(Unwrap(passes[p].base).dynamic_offsets)

IsLabelCommand(c) == c.kind \in {"PushDebugGroup", "InsertDebugMarker"}

\* the sum of len over the debug label commands
LabelBytes(commands) ==
    SumSeq([k \in 1 .. Len(commands) |->
               IF IsLabelCommand(commands[k]) THEN commands[k].len ELSE 0])

\* the labels passed by the calls that recorded the label commands, in order
RECURSIVE LabelsPassed(_, _, _)
LabelsPassed(commands, side, k) ==
    IF k > Len(commands) THEN <<>>
    ELSE (IF IsLabelCommand(commands[k]) THEN <<side[k]>> ELSE <<>>)
         \o LabelsPassed(commands, side, k + 1)

\* the labels the HAL encoder was handed, in order
RECURSIVE LabelsEmitted(_, _)
LabelsEmitted(calls, k) ==
    IF k > Len(calls) THEN <<>>
    ELSE (IF calls[k].call \in {"begin_debug_marker", "insert_debug_marker"}
          THEN <<calls[k].nums>> ELSE <<>>)
         \o LabelsEmitted(calls, k + 1)

\* what the replay of `commands` did with the labels: string_offset has
\* advanced over all of them, and the HAL got each label as it was passed,
\* or none when labels are discarded
LabelsReplayed(commands, side, state) ==
    /\ state.string_offset = LabelBytes(commands)
    /\ LabelsEmitted(state.raw_encoder, 1)
           = IF state.discard_hal_labels THEN <<>>
             ELSE LabelsPassed(commands, side, 1)

\* C10: in every record the sum of len over the PushDebugGroup and
\* InsertDebugMarker commands equals the length of string_data; and the
\* replay hands the HAL the label of each such command as it was passed, in
\* order, string_offset advancing by len with or without DISCARD_HAL_LABELS
C10_DebugLabelsLaw ==
    /\ \A p \in Handles :
           ~Ended(p) =>
               LabelBytes(Unwrap(passes[p].base).commands)
                   = Len(Unwrap(passes[p].base).string_data)
    /\ fin.pass /= 0 =>
           LabelsReplayed(SubSeq(fin.base.commands, 1, fin.state.replayed),
                          passed[fin.pass], fin.state)

\* a record with a push_debug_group label of two bytes and a marker of one
\* byte has been replayed with DISCARD_HAL_LABELS set
C10_Witness ==
    /\ fin.pass /= 0
    /\ device.discard_hal_labels
    /\ fin.state.replayed = 2
    /\ fin.base.commands[1].kind = "PushDebugGroup"
    /\ fin.base.commands[2].kind = "InsertDebugMarker"
    /\ fin.state.string_offset = 3

\* the number of commands of the given kind among the first n commands
CountKind(commands, kind, n) ==
    Cardinality({k \in 1 .. n : commands[k].kind = kind})

\* the number of HAL calls of the given name
CountCalls(calls, name) ==
    Cardinality({k \in 1 .. Len(calls) : calls[k].call = name})

\* the depth law for the replay of `commands` that stopped in `state`
DebugScopeDepthLaw(commands, state) ==
    /\ state.debug_scope_depth >= 0
    /\ state.debug_scope_depth
           = CountKind(commands, "PushDebugGroup", state.replayed)
             - CountKind(commands, "PopDebugGroup", state.replayed)
    /\ CountCalls(state.raw_encoder, "end_debug_marker")
           = IF state.discard_hal_labels THEN 0
             ELSE CountKind(commands, "PopDebugGroup", state.replayed)
    /\ (state.replayed < Len(commands)
        /\ commands[state.replayed + 1].kind = "PopDebugGroup")
           => /\ state.debug_scope_depth = 0
              /\ state.res = Err("PopDebugGroup", "InvalidPopDebugGroup")

\* C15: whenever the replay stops, after any number of commands,
\* debug_scope_depth is not negative and equals the PushDebugGroup commands
\* replayed minus the PopDebugGroup commands replayed (InsertDebugMarker
\* does not count); a PopDebugGroup that is not replayed met depth 0, fails
\* with InvalidPopDebugGroup at the PopDebugGroup scope and emits no
\* end_debug_marker
C15_DebugScopeDepthNeverNegative ==
    fin.pass /= 0 => DebugScopeDepthLaw(fin.base.commands, fin.state)

\* a push and a pop have been replayed and a second pop has failed at depth 0
C15_Witness ==
    /\ fin.pass /= 0
    /\ Len(fin.base.commands) = 3
    /\ fin.base.commands[1].kind = "PushDebugGroup"
    /\ fin.base.commands[2].kind = "PopDebugGroup"
    /\ fin.base.commands[3].kind = "PopDebugGroup"
    /\ fin.state.replayed = 2
    /\ last.op = "end"
    /\ last.res = Err("PopDebugGroup", "InvalidPopDebugGroup")

\* what compute_pass_end of `pass` would leave in the encoder and return
EndOutcome(pass, p) ==
    LET out(r) == [cmd_buf |-> r.ret.cmd_buf, res |-> r.ret.res]
    IN  out(compute_pass_end(pass, cmd_buf, p, "none", device.discard_hal_labels))

\* set_bind_group(index, id, offsets) once and twice in a row on `pass`
SetBindGroupOnce(pass, index, id, offsets) ==
    compute_pass_set_bind_group(pass, index, id, offsets).pass

SetBindGroupTwice(pass, index, id, offsets) ==
    SetBindGroupOnce(SetBindGroupOnce(pass, index, id, offsets), index, id, offsets)

\* the law for set_bind_group(index, id, offsets) on the record `pass`
RedundantSetBindGroupLaw(pass, p, index, id, offsets) ==
    EndOutcome(SetBindGroupTwice(pass, index, id, offsets), p)
        = EndOutcome(SetBindGroupOnce(pass, index, id, offsets), p)

\* C16: in every recording state of every pass, with and without a bind
\* group in slot 0, set_bind_group(i, g, o) called twice in a row with the
\* same id and the same dynamic offsets leads compute_pass_end to the same
\* HAL trace and the same result as calling it once: for a slot of the
\* filter and for an index beyond it, for a known and for an unknown bind
\* group id, with and without dynamic offsets
C16_RedundantSetBindGroupLaw ==
    \A p \in Handles :
        \A pass \in {passes[p], SetBindGroupOnce(passes[p], 0, "G1", <<>>)} :
            /\ RedundantSetBindGroupLaw(pass, p, 0, "G3", <<>>)
            /\ \A index \in {1, MaxBindGroupSlots}, id \in {"G2", "G_bad"} :
                   RedundantSetBindGroupLaw(pass, p, index, id, <<4>>)

\* a pass with pipeline P2 set and G1 in slot 0, where
\* set_bind_group(1, G2, <<4>>) is recorded by the first call, redundant in
\* the second, and handed to the HAL once by compute_pass_end
C16_Witness ==
    \E p \in Handles :
        LET seen(pass, once) ==
                /\ Len(Unwrap(once.base).commands) = 3
                /\ SetBindGroupTwice(pass, 1, "G2", <<4>>) = once
                /\ EndOutcome(once, p).res = Ok
                /\ \E k \in 1 .. Len(EndOutcome(once, p).cmd_buf.encoder.list) :
                       CountCalls(EndOutcome(once, p).cmd_buf.encoder.list[k].calls,
                                  "set_bind_group") = 2
            from(pass) == seen(pass, SetBindGroupOnce(pass, 1, "G2", <<4>>))
        IN  /\ ~Ended(p) /\ ~Invalid(p)
            /\ cmd_buf.status = "Locked"
            /\ Len(Unwrap(passes[p].base).commands) = 1
            /\ Unwrap(passes[p].base).commands[1].kind = "SetPipeline"
            /\ from(SetBindGroupOnce(passes[p], 0, "G1", <<>>))

----------------------------------------------------------------------------
(* The lock specification: passes created on a valid and on an invalid     *)
(* encoder, with and without timestamp writes on a query set the registry  *)
(* does not hold                                                           *)

\* number of calls that create a pass or change a record, under SpecLock
MaxLockCalls == 3

InitLock == InitWith({FALSE}, {FALSE})

NextLock ==
    \/ CreateComputePass({"E1", "E_bad"},
                         {NoTimestampWrites, TimestampWrites("Q_bad", Some(0), NoneOpt)},
                         MaxLockCalls)
    \/ DispatchWorkgroups({<<1, 1, 1>>}, MaxLockCalls)
    \/ EndPass({"none"})

SpecLock == InitLock /\ [][NextLock]_vars

\* the passes that have a parent and still hold their record
OpenValidPasses == {p \in Handles : ~Invalid(p) /\ ~Ended(p)}

\* C11: the encoder is Locked only while there is a valid pass that still
\* holds its record, whose compute_pass_end unlocks it: create leaves the
\* encoder locked only when it returns a valid pass
C11_LockedOnlyByValidPass ==
    cmd_buf.status = "Locked" => OpenValidPasses /= {}

\* C12: at most one valid pass that still holds its record exists on the
\* encoder at any time
C12_OneOpenPassPerEncoder ==
    Cardinality(OpenValidPasses) <= 1

\* C13: a recording operation, successful or failing, leaves the parent
\* command buffer as it was: its status, its open segment and its committed
\* segments
C13_RecordingLeavesEncoder ==
    [][last'.op = "record" => cmd_buf' = cmd_buf]_vars

\* a recording call has appended to the record of a pass that holds the lock
C13_Witness ==
    /\ last.op = "record"
    /\ last.res = Ok
    /\ cmd_buf.status = "Locked"
    /\ \E p \in Handles : ~Ended(p) /\ Unwrap(passes[p].base).commands /= <<>>

----------------------------------------------------------------------------
(* The device specification: commands on resources of the encoder's device *)
(* and of another device, bind group indices within and beyond             *)
(* max_bind_groups, dispatches with and without a pipeline                 *)

\* number of calls that create a pass or change a record, under SpecDevice
MaxDeviceCalls == 3

InitDevice == InitWith({FALSE}, {FALSE})

NextDevice ==
    \/ CreateComputePass({"E1"}, {NoTimestampWrites}, MaxDeviceCalls)
    \/ SetBindGroup({0, 2}, {"G1", "GX"}, {<<>>}, MaxDeviceCalls)
    \/ SetPipeline({"P0", "PX"}, MaxDeviceCalls)
    \/ SetPushConstant({0}, {<<1, 0, 0, 0>>}, MaxDeviceCalls)
    \/ DispatchWorkgroups({<<1, 1, 1>>}, MaxDeviceCalls)
    \/ DispatchWorkgroupsIndirect({"B1", "BX"}, {0}, MaxDeviceCalls)
    \/ WriteTimestamp({"QX"}, {0}, MaxDeviceCalls)
    \/ EndPass({"none"})

SpecDevice == InitDevice /\ [][NextDevice]_vars

\* the commands the replay of `state` looked at: those it replayed and the
\* one it failed on, if any
Visited(commands, state) == 1 .. Min(state.replayed + 1, Len(commands))

\* the device of the bind group, pipeline, indirect buffer or timestamp
\* query set a command refers to
DeviceOf(c) ==
    IF c.kind = "SetBindGroup" THEN BindGroups[c.bind_group].device
    ELSE IF c.kind = "SetPipeline" THEN ComputePipelines[c.pipeline].device
    ELSE IF c.kind = "DispatchIndirect" THEN Buffers[c.buffer].device
    ELSE IF c.kind = "WriteTimestamp" THEN QuerySets[c.query_set].device
    ELSE EncoderDevice

\* command k is where the replay stopped, with the given error
FailedAt(commands, state, k, inner, info) ==
    /\ state.replayed = k - 1
    /\ state.res = ErrInfo(scope_of(commands[k].kind), inner, info)

\* the original statement of C14: a SetBindGroup with an index of
\* max_bind_groups or more that the replay reaches always fails with
\* BindGroupIndexOutOfRange
C14_IndexOutOfRangeAlways ==
    fin.pass /= 0 =>
        \A k \in Visited(fin.base.commands, fin.state) :
            (/\ fin.base.commands[k].kind = "SetBindGroup"
             /\ fin.base.commands[k].index >= DeviceLimits.max_bind_groups)
                => FailedAt(fin.base.commands, fin.state, k, "BindGroupIndexOutOfRange",
                            <<fin.base.commands[k].index, DeviceLimits.max_bind_groups>>)

\* C14: a SetBindGroup with an index i of max_bind_groups or more, on a
\* bind group of the encoder's device, that the replay reaches makes
\* compute_pass_end fail at the SetBindGroup scope with
\* BindGroupIndexOutOfRange {index: i, max: max_bind_groups}
C14_IndexOutOfRangeOnOwnDevice ==
    fin.pass /= 0 =>
        \A k \in Visited(fin.base.commands, fin.state) :
            (/\ fin.base.commands[k].kind = "SetBindGroup"
             /\ fin.base.commands[k].index >= DeviceLimits.max_bind_groups
             /\ DeviceOf(fin.base.commands[k]) = EncoderDevice)
                => /\ FailedAt(fin.base.commands, fin.state, k, "BindGroupIndexOutOfRange",
                               <<fin.base.commands[k].index, DeviceLimits.max_bind_groups>>)
                   /\ (last.op = "end" /\ last.ran) => last.res = fin.state.res

\* SetBindGroup(0, G1) was replayed and SetBindGroup(2, G1) then failed
C14_Witness ==
    /\ fin.pass /= 0
    /\ Len(fin.base.commands) = 2
    /\ fin.base.commands[1] = SetBindGroupCmd(0, 0, "G1")
    /\ fin.base.commands[2] = SetBindGroupCmd(2, 0, "G1")
    /\ last.op = "end"
    /\ last.res = ErrInfo("SetBindGroup", "BindGroupIndexOutOfRange", <<2, 2>>)

\* C17: a SetBindGroup, SetPipeline, DispatchIndirect or WriteTimestamp that
\* the replay reaches and that refers to a bind group, pipeline, indirect
\* buffer or query set of another device fails with the
\* same-device error at the scope of its kind, whatever was replayed before
\* it: with no pipeline set, with an index beyond max_bind_groups
C17_OtherDeviceAlwaysRejected ==
    fin.pass /= 0 =>
        \A k \in Visited(fin.base.commands, fin.state) :
            DeviceOf(fin.base.commands[k]) /= EncoderDevice
                => FailedAt(fin.base.commands, fin.state, k, "DeviceMismatch", <<>>)

\* a bind group of another device at an index beyond max_bind_groups, and an
\* indirect dispatch on a buffer of another device with no pipeline set,
\* have been rejected
C17_Witness ==
    /\ fin.pass /= 0
    /\ fin.state.res.inner = "DeviceMismatch"
    /\ fin.state.replayed = 1
    /\ Len(fin.base.commands) = 2
    /\ fin.base.commands[1].kind = "SetBindGroup"
    /\ \/ fin.base.commands[2] = SetBindGroupCmd(2, 0, "GX")
       \/ fin.base.commands[2].kind = "DispatchIndirect"

\* the kinds of command that need a pipeline
NeedsPipeline == {"Dispatch", "DispatchIndirect", "SetPushConstant"}

\* no SetPipeline among the commands before command k
NoPipelineBefore(commands, k) ==
    \A j \in 1 .. (k - 1) : commands[j].kind /= "SetPipeline"

\* the HAL got no dispatch, dispatch_indirect or set_push_constants
NoDispatchEmitted(calls) ==
    \A j \in 1 .. Len(calls) :
        calls[j].call \notin {"dispatch", "dispatch_indirect", "set_push_constants"}

----------------------------------------------------------------------------
(* The dispatch specification: direct and indirect dispatches with and     *)
(* without a pipeline, with compatible and incompatible bind groups, at    *)
(* offsets inside, beyond and far beyond the indirect buffer, in builds    *)
(* with and without overflow checks                                        *)

\* number of calls that create a pass or change a record, under SpecDispatch
MaxDispatchCalls == 3

InitDispatch == InitBuild({FALSE}, {FALSE}, BOOLEAN)

NextDispatch ==
    \/ CreateComputePass({"E1"}, {NoTimestampWrites}, MaxDispatchCalls)
    \/ SetBindGroup({0}, {"G1"}, {<<>>}, MaxDispatchCalls)
    \/ SetPipeline({"P0", "P2"}, MaxDispatchCalls)
    \/ DispatchWorkgroups({<<1, 1, 1>>}, MaxDispatchCalls)
    \/ DispatchWorkgroupsIndirect({"B1"}, {0, 8, U64_MAX - 3}, MaxDispatchCalls)
    \/ EndPass({"none"})

SpecDispatch == InitDispatch /\ [][NextDispatch]_vars

\* the lowest-numbered slot whose bit is set in a mask that is not zero
LowestSetBit(mask) ==
    CHOOSE i \in 0 .. MaxBindGroupSlots :
        /\ (mask \div Pow2(i)) % 2 = 1
        /\ \A j \in 0 .. (i - 1) : (mask \div Pow2(j)) % 2 = 0

\* the dispatch law for the replay of `commands` that stopped in `state`:
\* `done` is the last command replayed, `k` the command the replay looked
\* at last
DispatchLaw(commands, state, done, k) ==
    /\ CountCalls(state.raw_encoder, "dispatch")
           = CountKind(commands, "Dispatch", done)
    /\ CountCalls(state.raw_encoder, "dispatch_indirect")
           = CountKind(commands, "DispatchIndirect", done)
    /\ (done > 0 /\ commands[done].kind \in {"Dispatch", "DispatchIndirect"})
           => /\ IsSome(state.pipeline)
              /\ invalid_mask(state.binder) = 0
    /\ (k > done /\ commands[k].kind \in {"Dispatch", "DispatchIndirect"}
        /\ DeviceOf(commands[k]) = EncoderDevice
        /\ IsSome(state.pipeline) /\ invalid_mask(state.binder) /= 0)
           => state.res = ErrInfo(scope_of(commands[k].kind),
                                  "Dispatch(IncompatibleBindGroup)",
                                  <<LowestSetBit(invalid_mask(state.binder))>>)

\* C19: the HAL gets one dispatch per Dispatch command replayed and one
\* dispatch_indirect per DispatchIndirect command replayed, and whenever
\* the replay stops right after such a command a pipeline is set and
\* invalid_mask is zero; whenever it stops at a Dispatch (or at a
\* DispatchIndirect on a buffer of the encoder's device) with a pipeline
\* set and invalid_mask not zero, the result is
\* Dispatch(IncompatibleBindGroup) with the lowest-numbered invalid slot
C19_DispatchOnlyWhenReady ==
    fin.pass /= 0 =>
        DispatchLaw(fin.base.commands, fin.state, fin.state.replayed,
                    Min(fin.state.replayed + 1, Len(fin.base.commands)))

\* a dispatch under pipeline P2, which expects bind groups in slots 0 and 1,
\* with no bind group set, has failed on slot 0 and has not reached the HAL
C19_Witness ==
    /\ fin.pass /= 0
    /\ Len(fin.base.commands) = 2
    /\ fin.base.commands[1] = SetPipelineCmd("P2")
    /\ fin.base.commands[2].kind = "Dispatch"
    /\ invalid_mask(fin.state.binder) = 3
    /\ CountCalls(fin.state.raw_encoder, "dispatch") = 0
    /\ last.op = "end"
    /\ last.res = ErrInfo("Dispatch", "Dispatch(IncompatibleBindGroup)", <<0>>)

\* C20: every dispatch_indirect the HAL gets has offset + 12 <= buffer.size
\* in mathematical integers; a DispatchIndirect with offset + 12 >
\* buffer.size is never replayed, and an IndirectBufferOverrun carries
\* offset, offset + 12 and the buffer size
C20_IndirectArgsWithinBuffer ==
    fin.pass /= 0 =>
        /\ \A j \in 1 .. Len(fin.state.raw_encoder) :
               fin.state.raw_encoder[j].call = "dispatch_indirect"
                   => fin.state.raw_encoder[j].nums[1] + DispatchIndirectArgsSize
                          <= Buffers[fin.state.raw_encoder[j].id].size
        /\ \A k \in 1 .. fin.state.replayed :
               fin.base.commands[k].kind = "DispatchIndirect"
                   => fin.base.commands[k].offset + DispatchIndirectArgsSize
                          <= Buffers[fin.base.commands[k].buffer].size
        /\ \A k \in 1 .. Len(fin.base.commands) :
               (/\ k = fin.state.replayed + 1
                /\ fin.base.commands[k].kind = "DispatchIndirect"
                /\ fin.state.res.inner = "IndirectBufferOverrun")
                   => fin.state.res.info
                          = <<fin.base.commands[k].offset,
                              fin.base.commands[k].offset + DispatchIndirectArgsSize,
                              Buffers[fin.base.commands[k].buffer].size>>

----------------------------------------------------------------------------
(* The workgroups specification: dispatches of sizes within and beyond     *)
(* max_compute_workgroups_per_dimension, with a bind group in use          *)

\* number of calls that create a pass or change a record, under SpecGroups
MaxGroupsCalls == 4

InitGroups == InitWith({FALSE}, {FALSE})

NextGroups ==
    \/ CreateComputePass({"E1"}, {NoTimestampWrites}, MaxGroupsCalls)
    \/ SetBindGroup({0}, {"G1"}, {<<>>}, MaxGroupsCalls)
    \/ SetPipeline({"P1"}, MaxGroupsCalls)
    \/ DispatchWorkgroups({<<2, 2, 2>>, <<3, 1, 1>>, <<1, 3, 1>>, <<2, 2, 3>>}, MaxGroupsCalls)
    \/ EndPass({"none"})

SpecGroups == InitGroups /\ [][NextGroups]_vars

\* every dimension is within the device limit
WithinGroupLimit(groups) ==
    \A d \in 1 .. 3 : groups[d] <= DeviceLimits.max_compute_workgroups_per_dimension

\* the usage-scope flush of a dispatch has run in `state`: every resource of
\* the active bind groups has left the scope for the intermediate trackers
Flushed(state) ==
    \A e \in UsedOf(list_active(state.binder)) :
        /\ state.scope[e[1]] = {}
        /\ state.intermediate_trackers.end[e[1]] /= {}

\* the replay was ready for a dispatch when it stopped in `state`
ReadyIn(state) == is_ready(state) = Ok

\* the workgroup law for the replay of `commands` that stopped in `state`
\* at command k
GroupSizeLaw(commands, state, k) ==
    /\ CountCalls(state.raw_encoder, "dispatch")
           = CountKind(commands, "Dispatch", state.replayed)
    /\ \A j \in 1 .. state.replayed :
           commands[j].kind = "Dispatch" => WithinGroupLimit(commands[j].groups)
    /\ (k > state.replayed /\ commands[k].kind = "Dispatch" /\ ReadyIn(state))
           => IF state.res.inner = "ResourceUsageCompatibility" THEN TRUE
              ELSE /\ ~WithinGroupLimit(commands[k].groups)
                   /\ state.res
                          = ErrInfo("Dispatch", "Dispatch(InvalidGroupSize)",
                                    commands[k].groups
                                        \o <<DeviceLimits.max_compute_workgroups_per_dimension>>)
                   /\ Flushed(state)

\* C21: the HAL gets exactly one dispatch per Dispatch command replayed, and
\* every Dispatch replayed has x, y and z within
\* max_compute_workgroups_per_dimension; a Dispatch in a ready state that
\* is not replayed either failed in the usage-scope flush or has a
\* dimension beyond the limit, and then fails with
\* Dispatch(InvalidGroupSize {current: [x, y, z], limit}) after the flush
\* for it has run
C21_DispatchWithinGroupLimit ==
    fin.pass /= 0 =>
        GroupSizeLaw(fin.base.commands, fin.state,
                     Min(fin.state.replayed + 1, Len(fin.base.commands)))

\* with P1 set and G1 bound, a dispatch of [2, 2, 3] has failed on its third
\* dimension after B1 was moved to the intermediate trackers
C21_Witness ==
    /\ fin.pass /= 0
    /\ Len(fin.base.commands) = 3
    /\ fin.state.replayed = 2
    /\ fin.base.commands[3] = DispatchCmd(<<2, 2, 3>>)
    /\ fin.state.intermediate_trackers.end["B1"] = {"STORAGE_READ_WRITE"}
    /\ last.op = "end"
    /\ last.res = ErrInfo("Dispatch", "Dispatch(InvalidGroupSize)", <<2, 2, 3, 2>>)

----------------------------------------------------------------------------
(* Order of the replay                                                     *)

\* the State after the replay of the first n commands of `base`, from the
\* State `begin` at the head of the replay loop
ReplayOf(begin, base, n) ==
    replay(begin, [base EXCEPT !.commands = SubSeq(@, 1, n)], 1)

IsPrefix(a, b) == Len(a) <= Len(b) /\ SubSeq(b, 1, Len(a)) = a

\* the order law for the body trace `calls` of the finalization of `base`
\* that began in `begin` and returned `res`
RecordingOrderLaw(begin, base, calls, res) ==
    /\ begin.raw_encoder /= <<>>
    /\ begin.raw_encoder[Len(begin.raw_encoder)].call = "begin_compute_pass"
    /\ CountCalls(calls, "begin_compute_pass") = 1
    /\ \A n \in 0 .. (Len(base.commands) - 1) :
           /\ IsPrefix(begin.raw_encoder, ReplayOf(begin, base, n).raw_encoder)
           /\ IsPrefix(ReplayOf(begin, base, n).raw_encoder,
                       ReplayOf(begin, base, n + 1).raw_encoder)
    /\ calls = IF res = Ok
               THEN Append(ReplayOf(begin, base, Len(base.commands)).raw_encoder,
                           Hal("end_compute_pass", "", <<>>))
               ELSE ReplayOf(begin, base, Len(base.commands)).raw_encoder

\* C22: the body trace of a finalization is the trace of begin_pass, which
\* ends with begin_compute_pass, followed by the HAL calls of the first
\* command, then those of the second, and so on in recording order (the
\* trace after n commands is a prefix of the trace after n + 1), followed,
\* when the replay succeeds, by end_compute_pass
C22_ReplayInRecordingOrder ==
    fin.pass /= 0 =>
        RecordingOrderLaw(fin.begin, fin.base, fin.state.raw_encoder, fin.state.res)

\* SetPipeline, SetBindGroup and Dispatch have been replayed: each has left
\* HAL calls, in that order, between begin_compute_pass and end_compute_pass
C22_Witness ==
    /\ fin.pass /= 0
    /\ fin.state.res = Ok
    /\ Len(fin.base.commands) = 3
    /\ fin.base.commands[1].kind = "SetPipeline"
    /\ fin.base.commands[2].kind = "SetBindGroup"
    /\ fin.base.commands[3].kind = "Dispatch"
    /\ [k \in 1 .. Len(fin.state.raw_encoder) |-> fin.state.raw_encoder[k].call]
           = <<"begin_compute_pass", "set_compute_pipeline", "set_bind_group",
               "dispatch", "end_compute_pass">>

\* the abort law for the replay of `base` from `begin` that stopped in
\* `state` at command k with an error
AbortLaw(begin, base, state, k) ==
    LET stopped(before, failed) ==
            /\ before.res = Ok
            /\ before.replayed = k - 1
            /\ failed.res /= Ok
            /\ state.res = failed.res
            /\ state.res.scope = scope_of(base.commands[k].kind)
            /\ state.raw_encoder = failed.raw_encoder
        at(before) == stopped(before, replay_command(before, base, base.commands[k]))
    IN  /\ k <= Len(base.commands)
        /\ at(ReplayOf(begin, base, k - 1))
        /\ CountCalls(state.raw_encoder, "end_compute_pass") = 0

\* C23: when the replay fails, every command before the one it stopped at
\* was replayed without error, the error is that of the handler of the
\* command it stopped at, tagged with the scope of its kind, the body trace
\* ends with the HAL calls of that command (none of a later command, no
\* end_compute_pass), and compute_pass_end returns that error; when the
\* replay does not fail every command was replayed
C23_ReplayAbortsAtFirstFailure ==
    fin.pass /= 0 =>
        /\ fin.state.res = Ok => fin.state.replayed = Len(fin.base.commands)
        /\ fin.state.res /= Ok =>
               AbortLaw(fin.begin, fin.base, fin.state, fin.state.replayed + 1)
        /\ (last.op = "end" /\ last.ran) => last.res = fin.state.res

\* a dispatch without a pipeline failed first; the SetPipeline recorded
\* after it was not replayed
C23_Witness ==
    /\ fin.pass /= 0
    /\ Len(fin.base.commands) = 2
    /\ fin.base.commands[1].kind = "Dispatch"
    /\ fin.base.commands[2] = SetPipelineCmd("P0")
    /\ fin.state.replayed = 0
    /\ CountCalls(fin.state.raw_encoder, "set_compute_pipeline") = 0
    /\ last.op = "end"
    /\ last.res = Err("Dispatch", "Dispatch(MissingPipeline)")

----------------------------------------------------------------------------
(* The pipeline specification: set_pipeline with ids in and not in the     *)
(* registry                                                                *)

\* number of calls that create a pass or change a record, under SpecPipeline
MaxPipelineCalls == 3

InitPipeline == InitWith({FALSE}, {FALSE})

NextPipeline ==
    \/ CreateComputePass({"E1"}, {NoTimestampWrites}, MaxPipelineCalls)
    \/ SetPipeline({"P0", "P1", "P_bad"}, MaxPipelineCalls)
    \/ DispatchWorkgroups({<<1, 1, 1>>}, MaxPipelineCalls)
    \/ EndPass({"none"})

SpecPipeline == InitPipeline /\ [][NextPipeline]_vars

\* the pipeline of the last SetPipeline command in the record, if any
RECURSIVE LastPipelineRecorded(_, _)
LastPipelineRecorded(commands, k) ==
    IF k = 0 THEN NoneOpt
    ELSE IF commands[k].kind = "SetPipeline" THEN Some(commands[k].pipeline)
    ELSE LastPipelineRecorded(commands, k - 1)

\* what set_pipeline(id) on the record `pass` must do according to C24
SetPipelineDropLaw(pass, id, r) ==
    /\ (r.res = Ok /\ r.pass.base = pass.base)
           <=> LastPipelineRecorded(Unwrap(pass.base).commands,
                                    Len(Unwrap(pass.base).commands)) = Some(id)
    /\ id \notin DOMAIN ComputePipelines
           => r.res = Err("SetPipelineCompute", "InvalidPipeline")

\* C24: on every pass that has not ended, set_pipeline(id) returns Ok and
\* appends nothing if and only if the last SetPipeline command in the record
\* is for id, and returns InvalidPipeline whenever id is not in the registry
C24_SetPipelineDroppedIffLastRecorded ==
    \A p \in Handles :
        ~Ended(p) =>
            \A id \in {"P0", "P1", "P_bad"} :
                SetPipelineDropLaw(passes[p], id, compute_pass_set_pipeline(passes[p], id))

----------------------------------------------------------------------------
(* compute_pass_end on a pass that has ended                               *)

\* C25: on every pass whose record was taken by an earlier
\* compute_pass_end, a further compute_pass_end fails with PassEnded when
\* the pass has a parent, and every compute_pass_end on a pass without a
\* parent fails with InvalidParentEncoder at the scope Pass(None)
C25_EndOfEndedPassIsPassEnded ==
    \A p \in Handles :
        /\ (Ended(p) /\ ~Invalid(p))
               => EndOutcome(passes[p], p).res = Err("Pass", "PassEnded")
        /\ Invalid(p)
               => EndOutcome(passes[p], p).res = Err("Pass(None)", "InvalidParentEncoder")

----------------------------------------------------------------------------
(* The flush specification: bind groups set before and after the pipeline, *)
(* two pipeline layouts, dispatches whose bind groups and indirect buffer  *)
(* use one buffer in compatible and in incompatible ways; one pass, created *)
(* by the first call                                                       *)

\* number of calls that create the pass or change its record, under SpecFlush
MaxFlushCalls == 5

InitFlush == InitWith({FALSE}, {FALSE})

NextFlush ==
    \/ (ncalls = 0 /\ CreateComputePass({"E1"}, {NoTimestampWrites}, MaxFlushCalls))
    \/ SetBindGroup({0}, {"G1"}, {<<>>}, MaxFlushCalls)
    \/ SetBindGroup({1}, {"G3"}, {<<>>}, MaxFlushCalls)
    \/ SetPipeline({"P1", "P2"}, MaxFlushCalls)
    \/ DispatchWorkgroups({<<1, 1, 1>>}, MaxFlushCalls)
    \/ DispatchWorkgroupsIndirect({"B1"}, {0}, MaxFlushCalls)
    \/ EndPass({"none"})

SpecFlush == InitFlush /\ [][NextFlush]_vars

\* the most recent HAL set_bind_group for slot i in `calls`, if any
LastSetBindGroup(calls, i) ==
    LET pick(ks) ==
            IF ks = {} THEN NoneOpt
            ELSE Some(calls[CHOOSE k \in ks : \A j \in ks : j <= k])
    IN  pick({k \in 1 .. Len(calls) :
                  calls[k].call = "set_bind_group" /\ calls[k].nums[1] = i})

\* every slot the pipeline layout of `state` expects was last bound in the
\* HAL to the group the binder holds there, with its dynamic offsets
BoundInHal(state) ==
    \A i \in Slots :
        IsSome(state.binder.expected[i]) =>
            /\ IsSome(state.binder.assigned[i])
            /\ LastSetBindGroup(state.raw_encoder, i)
                   = Some(Hal("set_bind_group", Unwrap(state.binder.assigned[i]),
                              <<i>> \o state.binder.offsets[i]))

\* the first slot at which the layouts expected by `binder` differ from the
\* bind group layouts of `layout`
FirstChangedSlot(binder, layout) ==
    LET bgls == PipelineLayouts[layout].bind_group_layouts
        first(differ) ==
            IF differ = {} THEN Len(bgls)
            ELSE CHOOSE i \in differ : \A j \in differ : i <= j
    IN  first({i \in Slots :
                   binder.expected[i]
                       /= (IF i < Len(bgls) THEN Some(bgls[i + 1]) ELSE NoneOpt)})

\* the deferred-binding law for command n of `base`, replayed from `before`
\* to `after`
DeferredBindingStep(base, n, before, after) ==
    LET cmd == base.commands[n]
        added == SubSeq(after.raw_encoder, Len(before.raw_encoder) + 1,
                        Len(after.raw_encoder))
        binds == SelectSeq(added, LAMBDA c : c.call = "set_bind_group")
    IN  /\ (cmd.kind = "SetBindGroup" /\ before.binder.pipeline_layout = NoneOpt)
               => added = <<>>
        /\ (cmd.kind = "SetPipeline" /\ after.res = Ok)
               => /\ added /= <<>>
                  /\ added[1] = Hal("set_compute_pipeline", cmd.pipeline, <<>>)
                  /\ \A k \in 1 .. Len(binds) :
                         /\ added[1 + k] = binds[k]
                         /\ binds[k].nums[1]
                                = FirstChangedSlot(before.binder,
                                                   ComputePipelines[cmd.pipeline].layout)
                                  + k - 1
                         /\ Some(binds[k].id) = after.binder.assigned[binds[k].nums[1]]
        /\ (cmd.kind \in {"Dispatch", "DispatchIndirect"}
            /\ \E k \in 1 .. Len(added) : added[k].call \in {"dispatch", "dispatch_indirect"})
               => BoundInHal(before)
        /\ (after.res = Ok /\ ReadyIn(after)) => BoundInHal(after)

DeferredBindingLaw(begin, base, replayed) ==
    /\ Len(begin.raw_encoder) = 1
    /\ \A n \in 1 .. Min(replayed + 1, Len(base.commands)) :
           DeferredBindingStep(base, n, ReplayOf(begin, base, n - 1),
                               ReplayOf(begin, base, n))

\* C26: a SetBindGroup replayed while the binder has no pipeline layout adds
\* no HAL call; a SetPipeline adds set_compute_pipeline first and then the
\* HAL set_bind_group calls of the groups the layout change returns, at the
\* consecutive slots start_index, start_index + 1, ..., each with the group
\* the binder holds at that slot; so whenever the replay is ready for a
\* dispatch, and before every HAL dispatch, each slot the pipeline layout
\* expects was last bound in the HAL to the group currently assigned there
C26_DeferredBinding ==
    fin.pass /= 0 => DeferredBindingLaw(fin.begin, fin.base, fin.state.replayed)

\* G1 and G3 were set before any pipeline; SetPipeline(P2) then bound them at
\* slots 0 and 1, after set_compute_pipeline
C26_Witness ==
    /\ fin.pass /= 0
    /\ fin.state.res = Ok
    /\ fin.base.commands
           = <<SetBindGroupCmd(0, 0, "G1"), SetBindGroupCmd(1, 0, "G3"), SetPipelineCmd("P2")>>
    /\ fin.state.raw_encoder
           = <<fin.begin.raw_encoder[1],
               Hal("set_compute_pipeline", "P2", <<>>),
               Hal("set_bind_group", "G1", <<0>>),
               Hal("set_bind_group", "G3", <<1>>),
               Hal("end_compute_pass", "", <<>>)>>

----------------------------------------------------------------------------
(* The timestamp specification: passes created with and without timestamp  *)
(* writes, with every combination of a present and an absent index, in a   *)
(* build that wraps on overflow and in one that panics                     *)

\* number of calls that create a pass or change a record, under SpecTimestamps
MaxTimestampCalls == 2

InitTimestamps == InitBuild({FALSE}, {FALSE}, {FALSE, TRUE})

\* the query indices a descriptor may carry
WriteIndices == {NoneOpt, Some(0), Some(1), Some(U32_MAX)}

NextTimestamps ==
    \/ CreateComputePass({"E1"},
                         {NoTimestampWrites}
                             \cup {TimestampWrites("Q1", b, e) : b, e \in WriteIndices},
                         MaxTimestampCalls)
    \/ SetPipeline({"P0"}, MaxTimestampCalls)
    \/ EndPass({"none"})

SpecTimestamps == InitTimestamps /\ [][NextTimestamps]_vars

\* the range of queries that covers the indices of `tw`, as integers
IndexRange(tw) ==
    LET present == {i \in {tw.beginning_of_pass_write_index,
                           tw.end_of_pass_write_index} : IsSome(i)}
        lo == CHOOSE i \in present : \A j \in present : Unwrap(i) <= Unwrap(j)
        hi == CHOOSE i \in present : \A j \in present : Unwrap(j) <= Unwrap(i)
    IN  IF present = {} THEN NoneOpt ELSE Some(<<Unwrap(lo), Unwrap(hi) + 1>>)

\* the body trace at the head of the replay loop, for a pass with `otw`
BeginTrace(otw) ==
    IF ~IsSome(otw) THEN <<Hal("begin_compute_pass", "", <<>>)>>
    ELSE IF IsSome(IndexRange(Unwrap(otw)))
    THEN <<Hal("reset_queries", Unwrap(otw).query_set, Unwrap(IndexRange(Unwrap(otw)))),
           Hal("begin_compute_pass", Unwrap(otw).query_set, <<>>)>>
    ELSE <<Hal("begin_compute_pass", Unwrap(otw).query_set, <<>>)>>

\* C27: a finalization with timestamp writes emits exactly one reset_queries
\* before begin_compute_pass, over min(begin, end) .. max(begin, end) + 1
\* when both indices are present and over i .. i + 1 when one is, for every
\* index value; with both absent, or without timestamp writes, it emits no
\* reset_queries; in each case it goes on to begin_compute_pass and the
\* replay
C27_ResetQueriesRange ==
    fin.pass /= 0 =>
        /\ fin.begin.res = Ok
        /\ fin.begin.raw_encoder = BeginTrace(fin.timestamp_writes)
        /\ IsPrefix(fin.begin.raw_encoder, fin.state.raw_encoder)

----------------------------------------------------------------------------
(* The usage-scope flush of a dispatch                                     *)

\* the usages a dispatch by command `cmd` makes of resource r in `state`:
\* those of the active bind groups and, for an indirect dispatch, INDIRECT
\* of the argument buffer
DispatchUses(state, cmd, r) ==
    {e[2] : e \in {x \in UsedOf(list_active(state.binder)) : x[1] = r}}
        \cup (IF cmd.kind = "DispatchIndirect" /\ cmd.buffer = r
              THEN {"INDIRECT"} ELSE {})

\* the flush law for the dispatch command `cmd`, replayed from `before`, a
\* state ready for a dispatch, to `after`
FlushStep(cmd, before, after) ==
    /\ after.res.inner = "ResourceUsageCompatibility"
           => /\ after.intermediate_trackers = before.intermediate_trackers
              /\ after.raw_encoder = before.raw_encoder
              /\ \E r \in Resources : ~usages_compatible(DispatchUses(before, cmd, r))
    /\ after.res = Ok
           => \A r \in Resources :
                  /\ usages_compatible(DispatchUses(before, cmd, r))
                  /\ after.scope[r] = {}
                  /\ DispatchUses(before, cmd, r) /= {}
                         => after.intermediate_trackers.end[r]
                                = DispatchUses(before, cmd, r)
    /\ (\E r \in Resources : ~usages_compatible(DispatchUses(before, cmd, r)))
           => /\ after.res /= Ok
              /\ after.raw_encoder = before.raw_encoder
              /\ cmd.kind = "Dispatch" => after.res.inner = "ResourceUsageCompatibility"

FlushLaw(begin, base, replayed) ==
    \A n \in 1 .. Min(replayed + 1, Len(base.commands)) :
        LET at(before) ==
                (before.res = Ok /\ ReadyIn(before))
                    => FlushStep(base.commands[n], before, ReplayOf(begin, base, n))
        IN  base.commands[n].kind \in {"Dispatch", "DispatchIndirect"}
                => at(ReplayOf(begin, base, n - 1))

\* C28: a dispatch that fails with ResourceUsageCompatibility leaves the
\* intermediate trackers as they were and adds no HAL call, no barrier
\* among them: no bind group is moved before all are merged; a dispatch
\* that succeeds has moved, for every resource, all the usages its active
\* bind groups and its indirect buffer make of it out of the scope into the
\* intermediate trackers, and these are compatible; a dispatch that makes
\* two incompatible usages of one resource, across bind groups or between a
\* bind group and the indirect buffer, is rejected
C28_FlushMergesBeforeMoving ==
    fin.pass /= 0 => FlushLaw(fin.begin, fin.base, fin.state.replayed)

\* after a dispatch that moved B1 to the intermediate trackers as read-write
\* storage, an indirect dispatch with its arguments in B1 was rejected and
\* left the trackers and the trace as they were
C28_Witness ==
    /\ fin.pass /= 0
    /\ fin.base.commands
           = <<SetPipelineCmd("P1"), SetBindGroupCmd(0, 0, "G1"),
               DispatchCmd(<<1, 1, 1>>), DispatchIndirectCmd("B1", 0)>>
    /\ fin.state.replayed = 3
    /\ fin.state.res.inner = "ResourceUsageCompatibility"
    /\ fin.state.intermediate_trackers.end["B1"] = {"STORAGE_READ_WRITE"}
    /\ CountCalls(fin.state.raw_encoder, "dispatch") = 1
    /\ CountCalls(fin.state.raw_encoder, "dispatch_indirect") = 0

----------------------------------------------------------------------------
(* The prelude specification: one pass, created by the first call, on an   *)
(* encoder with or without an open segment of earlier commands; a bind     *)
(* group with a discarded texture, dispatches that use one or two buffers  *)

\* number of calls that create the pass or change its record, under SpecPrelude
MaxPreludeCalls == 5

InitPrelude == InitWith({TRUE, FALSE}, {FALSE})

NextPrelude ==
    \/ (ncalls = 0 /\ CreateComputePass({"E1"}, {NoTimestampWrites}, MaxPreludeCalls))
    \/ SetBindGroup({0}, {"G1"}, {<<>>}, MaxPreludeCalls)
    \/ SetBindGroup({1}, {"G2"}, {<<4>>}, MaxPreludeCalls)
    \/ SetPipeline({"P1", "P2"}, MaxPreludeCalls)
    \/ DispatchWorkgroups({<<1, 1, 1>>}, MaxPreludeCalls)
    \/ EndPass({"none"})

SpecPrelude == InitPrelude /\ [][NextPrelude]_vars

\* the committed segments of `enc` once its open segment, if any, is closed
ClosedList(enc) == IF enc.is_open THEN Append(enc.list, enc.raw) ELSE enc.list

\* the resources a dispatch among the first n commands of `base` used
UsedByDispatches(begin, base, n) ==
    {r \in Resources :
        \E k \in 1 .. n :
            /\ base.commands[k].kind \in {"Dispatch", "DispatchIndirect"}
            /\ DispatchUses(ReplayOf(begin, base, k - 1), base.commands[k], r) /= {}}

\* the textures discarded in a bind group that a SetBindGroup of `commands`
\* sets
DiscardedBy(commands) ==
    UNION {BindGroups[commands[k].bind_group].discarded :
               k \in {j \in 1 .. Len(commands) : commands[j].kind = "SetBindGroup"}}

\* `calls` is a zero-clear for each texture of `fixups`, followed, when
\* `used` is not empty, by one HAL barrier call that holds exactly one
\* transition for each resource of `used`, from its usage in `tracker` to
\* its first usage `start` in the pass
PreBodyLaw(calls, fixups, used, tracker, start) ==
    LET n == Cardinality(fixups)
    IN  /\ Len(calls) = n + (IF used = {} THEN 0 ELSE 1)
        /\ \A k \in 1 .. n : calls[k].call = "clear_texture"
        /\ {calls[k].id : k \in 1 .. n} = fixups
        /\ used /= {}
               => /\ calls[n + 1].call = "transition_buffers"
                  /\ calls[n + 1].barriers = {<<r, tracker[r], start[r]>> : r \in used}
                  /\ Cardinality(calls[n + 1].barriers) = Cardinality(used)

\* the law for a compute_pass_end that returned Ok and left the encoder
\* `after`, having found it as `before` with the trackers `tracker`
PreludeLaw(before, tracker, after, f) ==
    LET n == Len(after.list)
    IN  /\ n >= 2
        /\ SubSeq(after.list, 1, n - 2) = ClosedList(before)
        /\ after.list[n] = Segment("body", f.pass, f.state.raw_encoder)
        /\ after.list[n - 1].part = "pre_body"
        /\ after.list[n - 1].pass = f.pass
        /\ PreBodyLaw(after.list[n - 1].calls, DiscardedBy(f.base.commands),
                      UsedByDispatches(f.begin, f.base, Len(f.base.commands)),
                      tracker, f.state.intermediate_trackers.start)

\* C29: a compute_pass_end that returns Ok leaves the encoder's segments as
\* those committed before the pass (its open segment closed), then the
\* pre-body segment, then the body segment; the pre-body segment holds the
\* zero-clears of all pending discard fixups first and then the barrier
\* prelude, which has exactly one transition for each resource a dispatch
\* of the pass used and none for any other resource
C29_PreBodyBeforeBody ==
    [][(last'.op = "end" /\ last'.res = Ok)
           => PreludeLaw(cmd_buf.encoder, cmd_buf.trackers, cmd_buf'.encoder, fin')]_vars

\* a pass that set G2, with its discarded texture, and dispatched with G1
\* and G2 bound has ended on an encoder that held earlier commands: the
\* pre-body segment, between those and the body, clears tex1 and then
\* moves B1 and B3 to their usages
C29_Witness ==
    /\ last.op = "end"
    /\ last.res = Ok
    /\ Len(cmd_buf.encoder.list) = 3
    /\ cmd_buf.encoder.list[1].part = "prior"
    /\ cmd_buf.encoder.list[2]
           = Segment("pre_body", last.pass,
                     <<Hal("clear_texture", "tex1", <<>>),
                       HalBarriers("transition_buffers",
                                   {<<"B1", {}, {"STORAGE_READ_WRITE"}>>,
                                    <<"B3", {}, {"UNIFORM"}>>})>>)
    /\ cmd_buf.encoder.list[3].part = "body"
    /\ CountCalls(cmd_buf.encoder.list[3].calls, "dispatch") = 1

----------------------------------------------------------------------------
(* The push constant specification: aligned and unaligned offsets, data of *)
(* one word, data of an unaligned length, and data longer than a u32 holds *)

\* number of calls that create a pass or change a record, under SpecPush
MaxPushCalls == 3

InitPush == InitWith({FALSE}, {FALSE})

\* a slice of Pow2(U32Bits) + 4 bytes: its length does not fit a u32
LongData == [k \in 1 .. (Pow2(U32Bits) + 4) |-> k % 256]

PushOffsets == {0, 2, 4}
PushDatas == {<<1, 2, 3, 4>>, <<7, 7, 7>>, LongData}

NextPush ==
    \/ CreateComputePass({"E1"}, {NoTimestampWrites}, MaxPushCalls)
    \/ SetPipeline({"P0"}, MaxPushCalls)
    \/ SetPushConstant(PushOffsets, PushDatas, MaxPushCalls)
    \/ EndPass({"none"})

SpecPush == InitPush /\ [][NextPush]_vars

\* u32::to_ne_bytes, the inverse of from_ne_bytes
to_ne_bytes(w) ==
    <<w % 256, (w \div 256) % 256, (w \div 65536) % 256, (w \div 16777216) % 256>>

\* the bytes of a sequence of words
RECURSIVE words_to_bytes(_)
words_to_bytes(words) ==
    IF words = <<>> THEN <<>>
    ELSE to_ne_bytes(words[1]) \o words_to_bytes(SubSeq(words, 2, Len(words)))

\* the sum of size_bytes / 4 over the SetPushConstant commands
PushConstantWords(commands) ==
    SumSeq([k \in 1 .. Len(commands) |->
               IF commands[k].kind = "SetPushConstant"
               THEN commands[k].size_bytes \div PUSH_CONSTANT_ALIGNMENT ELSE 0])

\* the record `base`, whose k-th command was recorded by a call that passed
\* side[k], holds for every SetPushConstant the data it was passed
PushConstantRecordLaw(base, side) ==
    /\ PushConstantWords(base.commands) = Len(base.push_constant_data)
    /\ \A k \in 1 .. Len(base.commands) :
           base.commands[k].kind = "SetPushConstant" =>
               words_to_bytes(
                   SubSeq(base.push_constant_data,
                          base.commands[k].values_offset + 1,
                          base.commands[k].values_offset
                              + base.commands[k].size_bytes \div PUSH_CONSTANT_ALIGNMENT))
                   = side[k]

\* what compute_pass_set_push_constant(offset, data) returned as r on `pass`
PushConstantCallLaw(pass, offset, data, r) ==
    LET base == Unwrap(pass.base)
        base1 == Unwrap(r.pass.base)
    IN  IF offset % 4 /= 0
        THEN r.res = Err("SetPushConstant", "PushConstantOffsetAlignment") /\ r.pass = pass
        ELSE IF Len(data) % 4 /= 0
        THEN r.res = Err("SetPushConstant", "PushConstantSizeAlignment") /\ r.pass = pass
        ELSE /\ r.res = Ok
             /\ base1.commands
                    = Append(base.commands,
                             SetPushConstantCmd(offset, Len(data),
                                                Len(base.push_constant_data)))
             /\ Len(base1.push_constant_data)
                    = Len(base.push_constant_data) + Len(data) \div 4
             /\ IsPrefix(base.push_constant_data, base1.push_constant_data)

\* C30: on an open pass compute_pass_set_push_constant(offset, data) fails
\* with PushConstantOffsetAlignment when offset % 4 /= 0, else with
\* PushConstantSizeAlignment when data.len() % 4 /= 0, leaving the record
\* as it was; otherwise it appends data.len() / 4 words and a command with
\* size_bytes = data.len() and values_offset = the length of the word
\* buffer before; in every record the words at values_offset ..
\* values_offset + size_bytes / 4 of each SetPushConstant are the data its
\* call passed, and the sum of size_bytes / 4 is the length of the buffer
C30_PushConstantRecordLaw ==
    \A p \in Handles :
        (~Ended(p) /\ ~Invalid(p)) =>
            /\ PushConstantRecordLaw(Unwrap(passes[p].base), passed[p])
            /\ \A offset \in PushOffsets, data \in PushDatas :
                   PushConstantCallLaw(passes[p], offset, data,
                                       compute_pass_set_push_constant(passes[p], offset,
                                                                      data))

----------------------------------------------------------------------------
(* The scope specification: one pass, created by the first call; a         *)
(* pipeline without bind groups and one with G1, so that B1 is the         *)
(* argument buffer of one dispatch and read-write storage of another       *)

\* number of calls that create the pass or change its record, under SpecScope
MaxScopeCalls == 6

InitScope == InitWith({FALSE}, {FALSE})

NextScope ==
    \/ (ncalls = 0 /\ CreateComputePass({"E1"}, {NoTimestampWrites}, MaxScopeCalls))
    \/ SetBindGroup({0}, {"G1"}, {<<>>}, MaxScopeCalls)
    \/ SetPipeline({"P0", "P1"}, MaxScopeCalls)
    \/ DispatchWorkgroups({<<1, 1, 1>>}, MaxScopeCalls)
    \/ DispatchWorkgroupsIndirect({"B1"}, {0}, MaxScopeCalls)
    \/ EndPass({"none"})

SpecScope == InitScope /\ [][NextScope]_vars

\* the checks of the dispatch command `cmd` that do not involve resource
\* usages pass
DispatchInputsFine(cmd) ==
    IF cmd.kind = "Dispatch" THEN WithinGroupLimit(cmd.groups)
    ELSE /\ same_device(Buffers[cmd.buffer].device)
         /\ DeviceFeatures.INDIRECT_EXECUTION
         /\ Buffers[cmd.buffer].indirect
         /\ cmd.offset + DispatchIndirectArgsSize <= Buffers[cmd.buffer].size

\* the scope law for the dispatch command `cmd`, replayed from `before`, a
\* state ready for a dispatch, to `after`
ScopeStep(cmd, before, after) ==
    /\ before.scope = EmptyUsages
    /\ after.res = Ok
           => /\ after.scope = EmptyUsages
              /\ \A r \in Resources :
                     DispatchUses(before, cmd, r) /= {}
                         => after.intermediate_trackers.end[r]
                                = DispatchUses(before, cmd, r)
    /\ (/\ DispatchInputsFine(cmd)
        /\ \A r \in Resources : usages_compatible(DispatchUses(before, cmd, r)))
           => after.res = Ok

ScopeLaw(begin, base, replayed) ==
    \A n \in 1 .. Min(replayed + 1, Len(base.commands)) :
        LET at(before) ==
                (before.res = Ok /\ ReadyIn(before))
                    => ScopeStep(base.commands[n], before, ReplayOf(begin, base, n))
        IN  base.commands[n].kind \in {"Dispatch", "DispatchIndirect"}
                => at(ReplayOf(begin, base, n - 1))

\* C31: every Dispatch and DispatchIndirect is replayed from an empty usage
\* scope and, when it succeeds, leaves the scope empty, every usage merged
\* for it, that of the indirect buffer included, moved to the intermediate
\* trackers; so a dispatch whose own usages are compatible succeeds
\* whatever usages the earlier dispatches of the pass made of the same
\* resources
C31_ScopeEmptyBetweenDispatches ==
    fin.pass /= 0 => ScopeLaw(fin.begin, fin.base, fin.state.replayed)

\* B1 held the arguments of an indirect dispatch under P0; under P1, with
\* G1 bound, a second dispatch used it as read-write storage: both
\* succeeded, with a barrier between them
C31_Witness ==
    /\ fin.pass /= 0
    /\ fin.state.res = Ok
    /\ fin.base.commands
           = <<SetBindGroupCmd(0, 0, "G1"), SetPipelineCmd("P0"),
               DispatchIndirectCmd("B1", 0), SetPipelineCmd("P1"),
               DispatchCmd(<<1, 1, 1>>)>>
    /\ CountCalls(fin.state.raw_encoder, "dispatch_indirect") = 1
    /\ CountCalls(fin.state.raw_encoder, "dispatch") = 1
    /\ CountCalls(fin.state.raw_encoder, "transition_buffers") = 1
    /\ fin.state.intermediate_trackers.start["B1"] = {"INDIRECT"}
    /\ fin.state.intermediate_trackers.end["B1"] = {"STORAGE_READ_WRITE"}
    /\ fin.state.scope = EmptyUsages

----------------------------------------------------------------------------
(* The filter specification: every recording call is made on the pass,     *)
(* passes[1], and on a reference pass, passes[2], that records it without  *)
(* the redundancy filter; both have the same parent encoder                *)

\* number of calls that create the pass or record on it, under SpecFilter
MaxFilterCalls == 6

InitFilter == InitWith({FALSE}, {FALSE})

\* command_encoder_create_compute_pass, and the reference pass next to it
CreateTwin(budget) ==
    LET created(r) ==
            /\ passes' = <<r.pass, r.pass>>
            /\ cmd_buf' = [cmd_buf EXCEPT !.status = r.status]
            /\ last' = Call("create_compute_pass", 1, r.res, FALSE)
    IN  /\ ncalls = 0
        /\ ncalls < budget
        /\ ncalls' = ncalls + 1
        /\ created(command_encoder_create_compute_pass(cmd_buf.status, "E1",
                                                       NoTimestampWrites))
        /\ passed' = <<<<>>, <<>>>>
        /\ finalized' = <<0, 0>>
        /\ end_called' = <<FALSE, FALSE>>
        /\ UNCHANGED <<device, fin>>

\* a recording call returned r on the pass and ref on the reference pass
RecordedTwin(r, ref, side, budget) ==
    LET grown(old, new, sides) ==
            IF Len(commands_of(new)) > Len(commands_of(old))
            THEN Append(sides, side) ELSE sides
    IN  /\ Len(passes) = 2
        /\ IsSome(passes[1].base)
        /\ IsSome(passes[2].base)
        /\ ncalls < budget
        /\ ncalls' = ncalls + 1
        /\ passes' = <<r.pass, ref.pass>>
        /\ passed' = <<grown(passes[1], r.pass, passed[1]),
                       grown(passes[2], ref.pass, passed[2])>>
        /\ last' = Call("record", 1, [r.res EXCEPT !.scope = ""], FALSE)
        /\ UNCHANGED <<cmd_buf, device, finalized, end_called, fin>>

SetBindGroupTwin(indices, ids, offs, budget) ==
    \E index \in indices, id \in ids, offsets \in offs :
        RecordedTwin(compute_pass_set_bind_group(passes[1], index, id, offsets),
                     compute_pass_set_bind_group_unfiltered(passes[2], index, id, offsets),
                     offsets, budget)

SetPipelineTwin(ids, budget) ==
    \E id \in ids :
        RecordedTwin(compute_pass_set_pipeline(passes[1], id),
                     compute_pass_set_pipeline_unfiltered(passes[2], id),
                     <<>>, budget)

DispatchWorkgroupsTwin(sizes, budget) ==
    \E g \in sizes :
        RecordedTwin(compute_pass_dispatch_workgroups(passes[1], g[1], g[2], g[3]),
                     compute_pass_dispatch_workgroups(passes[2], g[1], g[2], g[3]),
                     <<>>, budget)

NextFilter ==
    \/ CreateTwin(MaxFilterCalls)
    \/ SetBindGroupTwin({0}, {"G1"}, {<<>>}, MaxFilterCalls)
    \/ SetBindGroupTwin({1}, {"G2"}, {<<4>>}, MaxFilterCalls)
    \/ SetPipelineTwin({"P1", "P2"}, MaxFilterCalls)
    \/ DispatchWorkgroupsTwin({<<1, 1, 1>>}, MaxFilterCalls)
    \/ EndPass({"none"})

SpecFilter == InitFilter /\ [][NextFilter]_vars

\* C32: after any sequence of set_bind_group, set_pipeline and dispatch
\* calls with valid ids, compute_pass_end returns for the pass what it
\* returns for the reference pass, on which the same calls were recorded
\* without the redundancy filter
C32_FilterTransparentToEnd ==
    (Len(passes) = 2 /\ IsSome(passes[1].base) /\ IsSome(passes[2].base))
        => EndOutcome(passes[1], 1).res = EndOutcome(passes[2], 2).res

====
